---------------------------- MODULE Spec2Model ----------------------------
(***************************************************************************)
(* Model of the route optimisation request handler of groupdelivery:       *)
(*   backend/app/routers/optimization.py   optimize_routes                 *)
(*   backend/app/services/vrp_solver.py    VRPSolver, parse_time           *)
(*   backend/app/models/route.py           DeliveryDay, Route, RouteStop   *)
(*                                                                         *)
(* Python lists are modelled as sequences (1-based); a vehicle index or a  *)
(* location index of the code is kept 0-based, so vehicle v is             *)
(* drivers[v + 1] and location i is locations[i + 1].                      *)
(* An Optional value is a set: {} is None and {x} is the value x.          *)
(* A time string "HH:MM" is the pair <<HH, MM>>.                           *)
(* Durations of the distance oracle are kept in half minutes and its       *)
(* distances in decimetres, so that int() of the code truncates.           *)
(***************************************************************************)
EXTENDS Integers, Sequences, FiniteSets, TLC

(***************************************************************************)
(* Bounds of the model.                                                    *)
(***************************************************************************)
\* how many input fields of one request differ from the default request
MaxDeviations == 2
\* how many slack steps (of SlackStep minutes) the solver may wait at a node
MaxWait == 1
\* how many requests follow each other in SpecSeq
MaxRequests == 2

(***************************************************************************)
(* Program constants.                                                      *)
(***************************************************************************)
DefaultMaxStops == 15
DefaultMaxDuration == 120
DefaultServiceTime == 5
TimeSlack == 30
DropPenalty == 100000
MinRouteLen == 2

(***************************************************************************)
(* Generic helpers.                                                        *)
(***************************************************************************)
None == {}
Some(x) == {x}
Val(o) == CHOOSE x \in o : TRUE

Min2(a, b) == IF a <= b THEN a ELSE b
Max2(a, b) == IF a >= b THEN a ELSE b

Range(s) == {s[i] : i \in DOMAIN s}

RECURSIVE SeqSum(_)
SeqSum(s) == IF s = <<>> THEN 0 ELSE Head(s) + SeqSum(Tail(s))

RECURSIVE SeqMax(_)
SeqMax(s) == IF Len(s) = 1 THEN s[1] ELSE Max2(Head(s), SeqMax(Tail(s)))

\* the elements of a set of integers as an ascending list
RECURSIVE SortedSeq(_)
SortedSeq(S) ==
  IF S = {} THEN <<>>
  ELSE LET m == CHOOSE x \in S : \A y \in S : x <= y
       IN <<m>> \o SortedSeq(S \ {m})

\* the sub-list of s of the elements satisfying Test, in order
RECURSIVE SelectIdx(_, _, _)
SelectIdx(s, i, Keep) ==
  IF i > Len(s) THEN <<>>
  ELSE (IF Keep[i] THEN <<s[i]>> ELSE <<>>) \o SelectIdx(s, i + 1, Keep)

\* all orderings of a finite set
RECURSIVE Perms(_)
Perms(S) ==
  IF S = {} THEN {<<>>}
  ELSE UNION {{<<x>> \o p : p \in Perms(S \ {x})} : x \in S}

(***************************************************************************)
(* The inputs of one request: the rows of the addresses and drivers tables *)
(* the request names, the request body, and what is already persisted.     *)
(* A scenario is the default request with at most MaxDeviations fields     *)
(* changed to one of their alternatives.                                   *)
(***************************************************************************)
AddrIds == {1, 2}
DriverIds == {1, 2}
\* a driver id that no request selects
AbsentDriver == Cardinality(DriverIds) + 1
\* the date every request of the model is for
TheDate == "day1"
\* another date, for the requests that follow each other in SpecSeq
OtherDate == "day2"
Dates == {TheDate, OtherDate}

\* DriverConstraints entry of the request body (schemas/route.py)
Entry(home, stops, dur, start) ==
  [end_at_home |-> home, max_stops |-> stops,
   max_route_duration_minutes |-> dur, start_time |-> start]

NoEntry == None
PlainEntry == Some(Entry(FALSE, None, None, None))

EntryAlternatives ==
  { PlainEntry,
    Some(Entry(TRUE, None, None, None)),
    Some(Entry(TRUE, Some(1), Some(60), None)),
    Some(Entry(TRUE, Some(2), Some(60), None)),
    Some(Entry(FALSE, Some(1), None, None)),
    Some(Entry(FALSE, None, Some(90), None)),
    Some(Entry(FALSE, None, None, Some(<<9, 30>>))) }

WindowAlternatives ==
  { <<Some(<<9, 20>>), None>>,
    <<None, Some(<<9, 15>>)>>,
    <<Some(<<9, 10>>), Some(<<9, 40>>)>>,
    <<Some(<<8, 0>>), Some(<<8, 30>>)>> }

DefaultScenario ==
  [ address_ids |-> {1, 2},
    driver_ids  |-> {1, 2},
    prior       |-> FALSE,
    a1_pref |-> None,  a2_pref |-> None,
    a1_male |-> FALSE, a2_male |-> FALSE,
    a1_female |-> FALSE, a2_female |-> FALSE,
    a1_window |-> <<None, None>>, a2_window |-> <<None, None>>,
    a1_service |-> Some(5),
    a2_usable |-> TRUE,
    a2_coords |-> TRUE,
    a2_far |-> FALSE,
    d1_gender |-> "none", d2_gender |-> "none",
    d1_home |-> TRUE, d2_home |-> FALSE,
    d1_stops |-> Some(2), d2_stops |-> Some(2),
    d1_dur |-> Some(60), d2_dur |-> Some(60),
    d2_active |-> TRUE,
    d1_entry |-> NoEntry, d2_entry |-> NoEntry ]

Alternatives ==
  [ address_ids |-> {{1}, {2}, {}},
    driver_ids  |-> {{1}, {}},
    prior       |-> {TRUE},
    a1_pref |-> {Some(1), Some(2), Some(AbsentDriver)},
    a2_pref |-> {Some(1), Some(2), Some(AbsentDriver)},
    a1_male |-> {TRUE}, a2_male |-> {TRUE},
    a1_female |-> {TRUE}, a2_female |-> {TRUE},
    a1_window |-> WindowAlternatives, a2_window |-> WindowAlternatives,
    a1_service |-> {None, Some(20)},
    a2_usable |-> {FALSE},
    a2_coords |-> {FALSE},
    a2_far |-> {TRUE},
    d1_gender |-> {"male", "female"}, d2_gender |-> {"male", "female"},
    d1_home |-> {FALSE}, d2_home |-> {TRUE},
    d1_stops |-> {Some(1), None}, d2_stops |-> {Some(1), None},
    d1_dur |-> {Some(30), None}, d2_dur |-> {Some(30), None},
    d2_active |-> {FALSE},
    d1_entry |-> EntryAlternatives, d2_entry |-> EntryAlternatives ]

Fields == DOMAIN DefaultScenario

RECURSIVE Deviating(_)
Deviating(k) ==
  IF k = 0 THEN {DefaultScenario}
  ELSE LET prev == Deviating(k - 1)
       IN prev \cup
          UNION { UNION { { [s EXCEPT ![f] = a] : a \in Alternatives[f] }
                          : f \in {g \in Fields : s[g] = DefaultScenario[g]} }
                  : s \in prev }

\* both drivers flagged to end at home in the request, none of them with
\* home coordinates
BothHomeless ==
  [DefaultScenario EXCEPT !.d1_home = FALSE,
                          !.d1_entry = Some(Entry(TRUE, None, None, None)),
                          !.d2_entry = Some(Entry(TRUE, None, None, None))]

\* stop 1 with both gender flags set and driver 1 with a gender tag
BothFlags ==
  { [DefaultScenario EXCEPT !.a1_male = TRUE, !.a1_female = TRUE,
                            !.d1_gender = g] : g \in {"male", "female"} }

\* both drivers with home coordinates and flagged to end at home
BothEndAtHome ==
  [DefaultScenario EXCEPT !.d2_home = TRUE,
                          !.d1_entry = Some(Entry(TRUE, None, None, None)),
                          !.d2_entry = Some(Entry(TRUE, None, None, None))]

Scenarios ==
  Deviating(MaxDeviations) \cup {BothHomeless, BothEndAtHome} \cup BothFlags

\* a place is what the distance oracle is asked about: the depot, the
\* coordinates of an address, the home coordinates of a driver
Depot == [kind |-> "depot", id |-> 0]
AddrPlace(a) == [kind |-> "address", id |-> a]
HomePlace(d) == [kind |-> "home", id |-> d]

AddressRow(sc, a) ==
  [ id |-> a,
    usable |-> IF a = 2 THEN sc.a2_usable ELSE TRUE,
    coords_ok |-> IF a = 2 THEN sc.a2_coords ELSE TRUE,
    far |-> IF a = 2 THEN sc.a2_far ELSE FALSE,
    service_time_minutes |-> IF a = 1 THEN sc.a1_service ELSE Some(5),
    preferred_time_start |-> IF a = 1 THEN sc.a1_window[1] ELSE sc.a2_window[1],
    preferred_time_end |-> IF a = 1 THEN sc.a1_window[2] ELSE sc.a2_window[2],
    preferred_driver_id |-> IF a = 1 THEN sc.a1_pref ELSE sc.a2_pref,
    prefers_male_driver |-> IF a = 1 THEN sc.a1_male ELSE sc.a2_male,
    prefers_female_driver |-> IF a = 1 THEN sc.a1_female ELSE sc.a2_female ]

DriverRow(sc, d) ==
  [ id |-> d,
    is_active |-> IF d = 2 THEN sc.d2_active ELSE TRUE,
    gender |-> IF d = 1 THEN sc.d1_gender ELSE sc.d2_gender,
    home |-> IF (IF d = 1 THEN sc.d1_home ELSE sc.d2_home)
             THEN Some(HomePlace(d)) ELSE None,
    max_stops |-> IF d = 1 THEN sc.d1_stops ELSE sc.d2_stops,
    max_route_duration_minutes |-> IF d = 1 THEN sc.d1_dur ELSE sc.d2_dur ]

RequestOf(sc) ==
  [ date |-> TheDate,
    address_ids |-> sc.address_ids,
    driver_ids |-> sc.driver_ids,
    start_time |-> <<9, 0>>,
    driver_constraints |->
      [d \in {e \in DriverIds : (IF e = 1 THEN sc.d1_entry ELSE sc.d2_entry) # None}
         |-> Val(IF d = 1 THEN sc.d1_entry ELSE sc.d2_entry)] ]

\* what an earlier successful request for the same date has persisted
PriorDay ==
  [ id |-> 1, date |-> TheDate, status |-> "optimized", total_stops |-> 1,
    total_drivers |-> 1, total_distance_km |-> 40020,
    total_duration_minutes |-> 44 ]

PriorRoute ==
  [ id |-> 1, delivery_day_id |-> 1, driver_id |-> 1, route_number |-> 1,
    total_stops |-> 1, total_distance_km |-> 40020,
    total_duration_minutes |-> 44, route_geometry |-> TRUE,
    start_minutes |-> 0, end_minutes |-> 25,
    stops |-> << [address_id |-> 1, sequence |-> 1,
                  arrival |-> 10, departure |-> 15] >> ]

(***************************************************************************)
(* State.                                                                  *)
(***************************************************************************)
VARIABLES
  db_address,       \* addresses table: id -> row
  db_driver,        \* drivers table: id -> row
  request,          \* OptimizationRequest
  round,            \* the number of the request: 1 for the first one
  rival,            \* a second request for the same date that is in flight
  delivery_days,    \* committed rows of delivery_days
  routes,           \* committed rows of routes, each with its route_stops
  pc,               \* position of the handler
  addresses,        \* list of address rows the first query returned
  drivers,          \* list of driver rows the second query returned
  drivers_ending_at_home,        \* driver ids, in insertion order of the dict
  locations,                     \* list of places, depot first
  preferred_driver_constraints,  \* location index -> list of vehicle indices
  preferred_driver_errors,       \* address ids
  gender_preference_errors,      \* address ids
  solver,           \* the fields of the VRPSolver object, None before it exists
  solution,         \* what solver.solve returned, None before and for no solution
  dropped_address_details,       \* list of [address_id, reason]
  session,          \* writes of the database session that are not committed
  response,         \* [status, detail], status 0 while the handler runs
  calls             \* how often the oracle and the solver were called

inputVars == <<db_address, db_driver, request, round, rival>>
dbVars == <<delivery_days, routes>>
loadVars == <<addresses, drivers>>
buildVars == <<drivers_ending_at_home, locations, preferred_driver_constraints,
               preferred_driver_errors, gender_preference_errors>>
solveVars == <<solver, solution, dropped_address_details>>
vars == <<inputVars, dbVars, pc, loadVars, buildVars, solveVars, session,
          response, calls>>

\* a response: the status code, the detail of an error, and for a success
\* the fields of OptimizationResult the model follows
Reply(code, kind, items, dayRoutes, dropped, details) ==
  [status |-> code, detail |-> [kind |-> kind, items |-> items],
   routes |-> dayRoutes, dropped_addresses |-> dropped,
   dropped_address_details |-> details]

Running == Reply(0, "running", <<>>, {}, <<>>, <<>>)
HTTPException(code, kind, items) == Reply(code, kind, items, {}, <<>>, <<>>)

NoSession == [day |-> None, deleted |-> {}, routes |-> <<>>]

NoCalls == [matrix |-> 0, solve |-> 0, geometry |-> 0]

\* the second request: its position, the day and the routes of the date it
\* has read, the ids of the routes it has stored
Rival(position, day, existing, created) ==
  [pc |-> position, day |-> day, existing |-> existing, created |-> created]

NoRival == Rival("absent", None, {}, {})
PendingRival == Rival("pending", None, {}, {})

\* the first request arrives: the tables of scenario sc, a request for date
Start(sc, date) ==
  /\ db_address = [a \in AddrIds |-> AddressRow(sc, a)]
  /\ db_driver = [d \in DriverIds |-> DriverRow(sc, d)]
  /\ request = [RequestOf(sc) EXCEPT !.date = date]
  /\ round = 1
  /\ delivery_days = IF sc.prior THEN {PriorDay} ELSE {}
  /\ routes = IF sc.prior THEN {PriorRoute} ELSE {}
  /\ pc = "fetch_addresses"
  /\ addresses = <<>>
  /\ drivers = <<>>
  /\ drivers_ending_at_home = <<>>
  /\ locations = <<>>
  /\ preferred_driver_constraints = <<>>
  /\ preferred_driver_errors = <<>>
  /\ gender_preference_errors = <<>>
  /\ solver = None
  /\ solution = None
  /\ dropped_address_details = <<>>
  /\ session = NoSession
  /\ response = Running
  /\ calls = NoCalls

Init == \E sc \in Scenarios : Start(sc, TheDate) /\ rival = NoRival

\* database.get_db: a request that ends in an exception closes its session
\* without commit, so its pending writes are discarded
SessionAfterException == NoSession

\* raise HTTPException: the handler ends
Raise(exc) ==
  /\ pc' = "done"
  /\ response' = exc
  /\ session' = SessionAfterException

(***************************************************************************)
(* optimize_routes, lines 72-104: the two queries and their checks.        *)
(***************************************************************************)
QueryAddresses(ids) ==
  LET found == {a \in DOMAIN db_address : a \in ids /\ db_address[a].usable}
      order == SortedSeq(found)
  IN [i \in 1..Len(order) |-> db_address[order[i]]]

QueryDrivers(ids) ==
  LET found == {d \in DOMAIN db_driver : d \in ids /\ db_driver[d].is_active}
      order == SortedSeq(found)
  IN [i \in 1..Len(order) |-> db_driver[order[i]]]

FetchAddresses ==
  /\ pc = "fetch_addresses"
  /\ LET rows == QueryAddresses(request.address_ids)
     IN /\ addresses' = rows
        /\ IF Len(rows) < Cardinality(request.address_ids)
           THEN Raise(HTTPException(400, "addresses_not_found", <<>>))
           ELSE /\ pc' = "fetch_drivers"
                /\ UNCHANGED <<response, session>>
  /\ UNCHANGED <<inputVars, dbVars, drivers, buildVars, solveVars, calls>>

FetchDrivers ==
  /\ pc = "fetch_drivers"
  /\ LET rows == QueryDrivers(request.driver_ids)
     IN /\ drivers' = rows
        /\ IF Len(rows) # Cardinality(request.driver_ids)
           THEN Raise(HTTPException(400, "drivers_not_found", <<>>))
           ELSE IF Len(rows) = 0
           THEN Raise(HTTPException(400, "no_driver", <<>>))
           ELSE /\ pc' = "resolve_home"
                /\ UNCHANGED <<response, session>>
  /\ UNCHANGED <<inputVars, dbVars, addresses, buildVars, solveVars, calls>>

(***************************************************************************)
(* Lines 106-112: the maps from drivers to vehicle indices.                *)
(***************************************************************************)
driver_ids_in_request(drvs) == {drvs[i].id : i \in DOMAIN drvs}

\* the position in the 1-based list taken as the vehicle index: the faulty
\* variant of driver_id_to_vehicle_idx under which C2 fails
position_as_vehicle_idx(drvs, d) ==
  CHOOSE i \in DOMAIN drvs : drvs[i].id = d

driver_id_to_vehicle_idx(drvs, d) ==
  (CHOOSE i \in DOMAIN drvs : drvs[i].id = d) - 1

\* drivers without a gender tag counted as matching: the faulty variant of
\* gender_driver_indices under which C5 fails
gender_or_untagged_driver_indices(drvs, g) ==
  SortedSeq({i - 1 : i \in {j \in DOMAIN drvs : drvs[j].gender \in {g, "none"}}})

gender_driver_indices(drvs, g) ==
  SortedSeq({i - 1 : i \in {j \in DOMAIN drvs : drvs[j].gender = g}})

male_driver_indices(drvs) == gender_driver_indices(drvs, "male")
female_driver_indices(drvs) == gender_driver_indices(drvs, "female")

(***************************************************************************)
(* Lines 119-136: which drivers end at home.  The loop raises at the first *)
(* driver that is flagged but has no home coordinates.                     *)
(***************************************************************************)
HasConstraints(d) == d \in DOMAIN request.driver_constraints

WantsHome(drv) ==
  HasConstraints(drv.id) /\ request.driver_constraints[drv.id].end_at_home

\* flagged drivers without home coordinates passed over in silence: the
\* faulty variant of FlaggedWithoutHome under which C6 fails
FlaggedWithoutHomeSkipped(drvs) == {}

\* positions in drvs of the drivers that are flagged but have no home
\* coordinates (line 124 tests the truthiness of both coordinates)
FlaggedWithoutHome(drvs) ==
  {i \in DOMAIN drvs : WantsHome(drvs[i]) /\ drvs[i].home = None}

ResolveHomeEnding ==
  /\ pc = "resolve_home"
  /\ LET flagged == [i \in DOMAIN drivers |-> WantsHome(drivers[i])]
         homeless == FlaggedWithoutHome(drivers)
         ids == [i \in DOMAIN drivers |-> drivers[i].id]
     IN IF homeless # {}
        THEN /\ Raise(HTTPException(400, "no_home_address",
                 <<drivers[CHOOSE i \in homeless : \A j \in homeless : i <= j].id>>))
             /\ UNCHANGED drivers_ending_at_home
        ELSE /\ drivers_ending_at_home' =
                  SelectIdx(ids, 1, [i \in DOMAIN drivers |->
                                       flagged[i] /\ drivers[i].home # None])
             /\ pc' = "collect_constraints"
             /\ UNCHANGED <<response, session>>
  /\ UNCHANGED <<inputVars, dbVars, loadVars, locations,
                 preferred_driver_constraints, preferred_driver_errors,
                 gender_preference_errors, solveVars, calls>>

(***************************************************************************)
(* Lines 138-216: the location list, the allowed vehicles of every stop    *)
(* and the two validation errors.                                          *)
(***************************************************************************)
\* address_map: location index -> address row (index 0 is the depot)
address_map(addrs) == [i \in 1..Len(addrs) |-> addrs[i]]

\* the male flag alone decides: the faulty variant of WantsMaleOnly under
\* which C21 fails
WantsMale(addr) == addr.prefers_male_driver

WantsMaleOnly(addr) == addr.prefers_male_driver /\ ~addr.prefers_female_driver
WantsFemaleOnly(addr) == addr.prefers_female_driver /\ ~addr.prefers_male_driver

\* the value of allowed_vehicles at the end of one loop iteration; the
\* empty list stands for None as well: line 197 tests truthiness
allowed_vehicles(addr, drvs) ==
  IF addr.preferred_driver_id # None
  THEN IF Val(addr.preferred_driver_id) \in driver_ids_in_request(drvs)
       THEN <<driver_id_to_vehicle_idx(drvs, Val(addr.preferred_driver_id))>>
       ELSE <<>>
  ELSE IF WantsMaleOnly(addr) THEN male_driver_indices(drvs)
  ELSE IF WantsFemaleOnly(addr) THEN female_driver_indices(drvs)
  ELSE <<>>

\* the preferred driver looked up among all stored drivers instead of the
\* drivers of the request: the faulty variant of HasPreferredDriverError
\* under which C3 fails
PreferredDriverUnknown(addr, drvs) ==
  /\ addr.preferred_driver_id # None
  /\ Val(addr.preferred_driver_id) \notin DOMAIN db_driver

HasPreferredDriverError(addr, drvs) ==
  /\ addr.preferred_driver_id # None
  /\ Val(addr.preferred_driver_id) \notin driver_ids_in_request(drvs)

\* only the male preference validated: the faulty variant of
\* HasGenderPreferenceError under which C4 fails
MalePreferenceErrorOnly(addr, drvs) ==
  /\ addr.preferred_driver_id = None
  /\ WantsMaleOnly(addr) /\ male_driver_indices(drvs) = <<>>

HasGenderPreferenceError(addr, drvs) ==
  /\ addr.preferred_driver_id = None
  /\ \/ WantsMaleOnly(addr) /\ male_driver_indices(drvs) = <<>>
     \/ ~WantsMaleOnly(addr) /\ WantsFemaleOnly(addr)
          /\ female_driver_indices(drvs) = <<>>

CollectConstraints ==
  /\ pc = "collect_constraints"
  /\ LET amap == address_map(addresses)
         ids == [i \in DOMAIN addresses |-> addresses[i].id]
         perr == SelectIdx(ids, 1,
                   [i \in DOMAIN addresses |->
                      HasPreferredDriverError(addresses[i], drivers)])
         gerr == SelectIdx(ids, 1,
                   [i \in DOMAIN addresses |->
                      HasGenderPreferenceError(addresses[i], drivers)])
         constrained == {i \in DOMAIN amap : allowed_vehicles(amap[i], drivers) # <<>>}
     IN /\ locations' = <<Depot>> \o [i \in DOMAIN addresses |-> AddrPlace(addresses[i].id)]
        /\ preferred_driver_constraints' =
             [i \in constrained |-> allowed_vehicles(amap[i], drivers)]
        /\ preferred_driver_errors' = perr
        /\ gender_preference_errors' = gerr
        /\ IF perr # <<>>
           THEN Raise(HTTPException(400, "preferred_driver", perr))
           ELSE IF gerr # <<>>
           THEN Raise(HTTPException(400, "gender_preference", gerr))
           ELSE /\ pc' = "fetch_matrix"
                /\ UNCHANGED <<response, session>>
  /\ UNCHANGED <<inputVars, dbVars, loadVars, drivers_ending_at_home,
                 solveVars, calls>>

(***************************************************************************)
(* The distance oracle (services/osrm.py).  Places lie on a line; the      *)
(* table service answers with seconds and metres, which the adapter        *)
(* divides by 60 and by 1000.  Here: half minutes and decimetres.          *)
(***************************************************************************)
Position(p) ==
  IF p.kind = "depot" THEN 0
  ELSE IF p.kind = "address" THEN 2 * p.id
  ELSE IF p.id = 1 THEN 5 ELSE 1

Abs(x) == IF x < 0 THEN 0 - x ELSE x

\* duration_minutes * 2 : five and a half minutes per unit of the line
OracleDuration(p, q) == 11 * Abs(Position(p) - Position(q))
\* an address that is reached over a fast road of 60 km
Remote(p) == p.kind = "address" /\ db_address[p.id].far

\* distance_km * 10000 : 1000.5 m per unit of the line, and the fast road
\* to or from a remote address
OracleDistance(p, q) ==
  10005 * Abs(Position(p) - Position(q))
    + (IF Remote(p) # Remote(q) THEN 60 * 10005 ELSE 0)

get_distance_matrix(locs) ==
  [ distance |-> [i \in 0..(Len(locs) - 1) |-> [j \in 0..(Len(locs) - 1) |->
                    OracleDistance(locs[i + 1], locs[j + 1])]],
    duration |-> [i \in 0..(Len(locs) - 1) |-> [j \in 0..(Len(locs) - 1) |->
                    OracleDuration(locs[i + 1], locs[j + 1])]] ]

\* int(x) of a duration in minutes and of a distance in metres
IntMinutes(halfMinutes) == halfMinutes \div 2
IntMetres(decimetres) == decimetres \div 10

(***************************************************************************)
(* Lines 218-241: the home locations are appended, then the matrix lookup  *)
(* which either answers or raises.                                         *)
(***************************************************************************)
HomeCoords(d) == Val(db_driver[d].home)

locations_with_homes(locs, homeDrivers) ==
  locs \o [k \in DOMAIN homeDrivers |-> HomeCoords(homeDrivers[k])]

\* home_location_indices: driver id -> location index
home_location_indices(locs, homeDrivers, d) ==
  Len(locs) + (CHOOSE k \in DOMAIN homeDrivers : homeDrivers[k] = d) - 1

\* the matrices are a function of the location list and are not kept in the
\* state; the solver object records the size of the matrix it was given
distance_matrix == get_distance_matrix(locations).distance
duration_matrix == get_distance_matrix(locations).duration

EmptySolver ==
  [ num_vehicles |-> 0,
    num_locations |-> 0, service_times |-> <<>>, time_windows |-> <<>>,
    max_route_durations |-> <<>>, vehicle_capacities |-> <<>>,
    vehicle_start_offsets |-> <<>>, mandatory_final_stops |-> <<>>,
    allowed_vehicles |-> <<>> ]

FetchMatrix ==
  /\ pc = "fetch_matrix"
  /\ locations' = locations_with_homes(locations, drivers_ending_at_home)
  /\ calls' = [calls EXCEPT !.matrix = @ + 1]
  /\ \/ \E size \in {Len(locations'), Len(locations') - 1} :
           \* the table service answers; a short answer is caught at line 361
           /\ solver' = Some([EmptySolver EXCEPT !.num_locations = size])
           /\ pc' = "configure_solver"
           /\ UNCHANGED <<response, session>>
     \/ /\ Raise(HTTPException(500, "distance_matrix", <<>>))
        /\ UNCHANGED solver
  /\ UNCHANGED <<inputVars, dbVars, loadVars, drivers_ending_at_home,
                 preferred_driver_constraints, preferred_driver_errors,
                 gender_preference_errors, solution, dropped_address_details>>

(***************************************************************************)
(* Lines 243-350: the solver object is configured.                         *)
(***************************************************************************)
time_to_minutes(t) == t[1] * 60 + t[2]

\* vrp_solver.parse_time: minutes from base_time to the time of day t on
\* the date of base_time (negative when t is before base_time)
parse_time(t, baseMinutes) == time_to_minutes(t) - baseMinutes

\* line 257: addr.service_time_minutes or 5
service_time_of(addr) ==
  IF addr.service_time_minutes = None \/ Val(addr.service_time_minutes) = 0
  THEN DefaultServiceTime ELSE Val(addr.service_time_minutes)

service_times_list(addrs, homeDrivers) ==
  [i \in 0..(Len(addrs) + Len(homeDrivers)) |->
     IF i >= 1 /\ i <= Len(addrs) THEN service_time_of(addrs[i]) ELSE 0]

\* lines 266-272
capacity_of(drv) ==
  IF HasConstraints(drv.id)
  THEN LET constraint == request.driver_constraints[drv.id].max_stops
       IN IF constraint # None THEN Val(constraint) ELSE DefaultMaxStops
  ELSE IF drv.max_stops # None /\ Val(drv.max_stops) # 0
       THEN Val(drv.max_stops) ELSE DefaultMaxStops

\* lines 277-283
max_duration_of(drv) ==
  IF HasConstraints(drv.id)
  THEN LET constraint == request.driver_constraints[drv.id].max_route_duration_minutes
       IN IF constraint # None THEN Val(constraint) ELSE DefaultMaxDuration
  ELSE IF drv.max_route_duration_minutes # None
            /\ Val(drv.max_route_duration_minutes) # 0
       THEN Val(drv.max_route_duration_minutes) ELSE DefaultMaxDuration

\* lines 289-295
driver_start_time(drv) ==
  IF HasConstraints(drv.id) /\ request.driver_constraints[drv.id].start_time # None
  THEN Val(request.driver_constraints[drv.id].start_time)
  ELSE request.start_time

\* the global start time taken as the origin: the faulty variant of
\* earliest_start_minutes under which C22 fails
global_start_minutes(drvs) == time_to_minutes(request.start_time)

\* lines 304-305
earliest_start_minutes(drvs) ==
  LET mins == {time_to_minutes(driver_start_time(drvs[i])) : i \in DOMAIN drvs}
  IN CHOOSE m \in mins : \A n \in mins : m <= n

\* lines 311-314
vehicle_start_offset(drv, drvs) ==
  time_to_minutes(driver_start_time(drv)) - earliest_start_minutes(drvs)

\* lines 320-331
max_overall_duration(drvs) ==
  SeqMax([i \in DOMAIN drvs |-> max_duration_of(drvs[i])])

address_time_window(addr, drvs) ==
  LET base == earliest_start_minutes(drvs)
      start_min == IF addr.preferred_time_start # None
                   THEN parse_time(Val(addr.preferred_time_start), base) ELSE 0
      end_min == IF addr.preferred_time_end # None
                 THEN parse_time(Val(addr.preferred_time_end), base)
                 ELSE max_overall_duration(drvs)
  IN <<start_min, end_min>>

time_windows_list(addrs, homeDrivers, drvs) ==
  [i \in 0..(Len(addrs) + Len(homeDrivers)) |->
     IF i >= 1 /\ i <= Len(addrs) THEN address_time_window(addrs[i], drvs)
     ELSE <<0, max_overall_duration(drvs)>>]

\* the home locations given to the vehicles in the order of the homes,
\* not by the position of the driver: the faulty variant of
\* mandatory_final_stops_map under which C23 fails
mandatory_final_stops_in_home_order(drvs, locs, homeDrivers) ==
  [v \in 0..(Len(homeDrivers) - 1) |-> Len(locs) - Len(homeDrivers) + v]

\* lines 337-342: vehicle index -> location index of the driver's home
mandatory_final_stops_map(drvs, locs, homeDrivers) ==
  LET base == Len(locs) - Len(homeDrivers)
  IN [v \in {i - 1 : i \in {j \in DOMAIN drvs : drvs[j].id \in Range(homeDrivers)}}
        |-> base + (CHOOSE k \in DOMAIN homeDrivers : homeDrivers[k] = drvs[v + 1].id) - 1]

\* the checks before solve without the test of the coordinates: the
\* faulty variant of PreSolveValidation under which C11 fails
PreSolveValidationNoCoordinates(addrs, drvs, locs, matrixSize) ==
  IF Len(addrs) = 0 THEN HTTPException(400, "no_addresses", <<>>)
  ELSE IF Len(drvs) = 0 THEN HTTPException(400, "no_drivers", <<>>)
  ELSE IF matrixSize # Len(locs) THEN HTTPException(500, "matrix_size", <<>>)
  ELSE Running

\* lines 352-381: the checks before solve; "ok" or the exception
PreSolveValidation(addrs, drvs, locs, matrixSize) ==
  IF Len(addrs) = 0 THEN HTTPException(400, "no_addresses", <<>>)
  ELSE IF Len(drvs) = 0 THEN HTTPException(400, "no_drivers", <<>>)
  ELSE IF matrixSize # Len(locs) THEN HTTPException(500, "matrix_size", <<>>)
  ELSE IF \E i \in DOMAIN addrs : ~addrs[i].coords_ok
       THEN HTTPException(500, "invalid_coordinates", <<>>)
  ELSE Running

ConfigureSolver ==
  /\ pc = "configure_solver"
  /\ LET old == Val(solver)
         check == PreSolveValidation(addresses, drivers, locations, old.num_locations)
     IN /\ solver' = Some(
             [ old EXCEPT
                 !.num_vehicles = Len(drivers),
                 !.service_times = service_times_list(addresses, drivers_ending_at_home),
                 !.vehicle_capacities = [v \in 0..(Len(drivers) - 1) |-> capacity_of(drivers[v + 1])],
                 !.max_route_durations = [v \in 0..(Len(drivers) - 1) |-> max_duration_of(drivers[v + 1])],
                 !.vehicle_start_offsets = [v \in 0..(Len(drivers) - 1) |-> vehicle_start_offset(drivers[v + 1], drivers)],
                 !.time_windows = time_windows_list(addresses, drivers_ending_at_home, drivers),
                 !.mandatory_final_stops = mandatory_final_stops_map(drivers, locations, drivers_ending_at_home),
                 !.allowed_vehicles = preferred_driver_constraints ])
        /\ IF check # Running
           THEN Raise(check)
           ELSE /\ pc' = "solve"
                /\ UNCHANGED <<response, session>>
  /\ UNCHANGED <<inputVars, dbVars, loadVars, buildVars, solution,
                 dropped_address_details, calls>>

(***************************************************************************)
(* VRPSolver.solve (vrp_solver.py 72-198).  The routing library is a black *)
(* box: it returns any assignment that satisfies the constraints the code  *)
(* states, or none.  A plan of a vehicle is the list of nodes it visits    *)
(* between its start and its end at the depot, with the cumulative time at *)
(* each of them.                                                           *)
(***************************************************************************)
SlackStep == 2 * DefaultServiceTime
SlackChoices == {k * SlackStep : k \in 0..MaxWait} \cap 0..TimeSlack

\* time_callback, lines 105-111
time_callback(S, from_node, to_node) ==
  IntMinutes(duration_matrix[from_node][to_node]) + S.service_times[from_node]

\* distance_callback, lines 93-97
distance_callback(from_node, to_node) ==
  IntMetres(distance_matrix[from_node][to_node])

\* demand counted for delivery stops only: the faulty variant of
\* demand_callback under which C30 fails
demand_of_deliveries(from_node) ==
  IF from_node \in 1..Len(addresses) THEN 1 ELSE 0

\* demand_callback, lines 160-163
demand_callback(from_node) == IF from_node # 0 THEN 1 ELSE 0

\* line 116
max_duration_overall(S) ==
  SeqMax([i \in 1..S.num_vehicles |-> S.max_route_durations[i - 1]])

\* only the global bound of the dimension applied: the faulty variant of
\* EndCumulMax under which C7 fails
EndCumulGlobalMax(S, v) == max_duration_overall(S)

\* lines 129-131: the bound of the cumulative time at the end of vehicle v
EndCumulMax(S, v) == S.max_route_durations[v]

\* only the end of the window applied: the faulty variant of InTimeWindow
\* under which C24 fails
InTimeWindowEndOnly(S, node, t) == t <= S.time_windows[node][2]

\* lines 134-148: SetRange of the cumulative time at a node
InTimeWindow(S, node, t) ==
  S.time_windows[node][1] <= t /\ t <= S.time_windows[node][2]

\* every vehicle given the largest capacity: the faulty variant of
\* WithinCapacity under which C8 fails
WithinLargestCapacity(S, v, nodes) ==
  SeqSum([k \in DOMAIN nodes |-> demand_callback(nodes[k])])
    <= SeqMax([i \in 1..S.num_vehicles |-> S.vehicle_capacities[i - 1]])

\* lines 167-173: the load of a vehicle is bounded by its capacity
WithinCapacity(S, v, nodes) ==
  SeqSum([k \in DOMAIN nodes |-> demand_callback(nodes[k])]) <= S.vehicle_capacities[v]

\* set_vehicle_start_offsets: the cumulative time at the start of vehicle v
\* is at least its offset
StartCumulMin(S, v) == S.vehicle_start_offsets[v]

\* set_allowed_vehicles_for_nodes: a constrained node is visited by one of
\* its allowed vehicles or by none
VehicleAllowed(S, v, node) ==
  node \in DOMAIN S.allowed_vehicles => v \in Range(S.allowed_vehicles[node])

\* set_vehicle_mandatory_final_stops: the home node of vehicle v is the
\* last node of its route and no other vehicle visits it
FinalStops(S, v) ==
  IF v \in DOMAIN S.mandatory_final_stops
  THEN <<S.mandatory_final_stops[v]>> ELSE <<>>

\* lines 118-124: cumulative times along path from position k on, the time
\* at position k being t; slack at most TimeSlack, every cumul at most the
\* largest max duration
RECURSIVE CumulTimes(_, _, _, _, _)
CumulTimes(S, v, path, k, t) ==
  IF t < 0 \/ t > max_duration_overall(S) THEN {}
  ELSE IF k = Len(path)
  THEN IF t <= EndCumulMax(S, v) THEN {<<t>>} ELSE {}
  ELSE IF ~InTimeWindow(S, path[k], t) THEN {}
  ELSE UNION { { <<t>> \o rest :
                   rest \in CumulTimes(S, v, path, k + 1,
                              t + time_callback(S, path[k], path[k + 1]) + w) }
               : w \in SlackChoices }

\* the plans of vehicle v that serve exactly the delivery nodes of served
VehiclePlans(S, v, served) ==
  IF \E n \in served : ~VehicleAllowed(S, v, n) THEN {}
  ELSE UNION {
    LET nodes == order \o FinalStops(S, v)
        path == <<0>> \o nodes \o <<0>>
    IN IF ~WithinCapacity(S, v, nodes) THEN {}
       ELSE UNION { { [nodes |-> nodes, times |-> ts] :
                        ts \in CumulTimes(S, v, path, 1, StartCumulMin(S, v) + w) }
                    : w \in SlackChoices }
    : order \in Perms(served) }

\* the delivery nodes: every node but the depot and the final stops
DeliveryNodes(S) ==
  (1..(S.num_locations - 1)) \
     {S.mandatory_final_stops[v] : v \in DOMAIN S.mandatory_final_stops}

\* the assignments of the nodes of rest to the vehicles v, v+1, ...: a list
\* of plans; a node of rest that no vehicle takes is dropped (lines 175-178)
RECURSIVE Assignments(_, _, _)
Assignments(S, v, rest) ==
  IF v = S.num_vehicles THEN {<<>>}
  ELSE UNION { { <<p>> \o others : p \in VehiclePlans(S, v, served),
                                   others \in Assignments(S, v + 1, rest \ served) }
               : served \in SUBSET rest }

FeasiblePlans(S) == Assignments(S, 0, DeliveryNodes(S))

\* lines 92-102 and 175-178: the objective of the routing model, the arc
\* costs of all vehicles and the penalty of every dropped node
PlanArcCost(plan) ==
  LET path == <<0>> \o plan.nodes \o <<0>>
  IN SeqSum([k \in 1..(Len(path) - 1) |-> distance_callback(path[k], path[k + 1])])

VisitedBy(plans) == UNION {Range(plans[i].nodes) : i \in DOMAIN plans}

DroppedBy(S, plans) == DeliveryNodes(S) \ VisitedBy(plans)

Objective(S, plans) ==
  SeqSum([i \in DOMAIN plans |-> PlanArcCost(plans[i])])
    + DropPenalty * Cardinality(DroppedBy(S, plans))

\* the assignments the search ends with when it runs to the optimum
CostMinimalPlans(S) ==
  LET feasible == FeasiblePlans(S)
      costs == {Objective(S, p) : p \in feasible}
      least == CHOOSE c \in costs : \A d \in costs : c <= d
  IN {p \in feasible : Objective(S, p) = least}

(***************************************************************************)
(* VRPSolver._extract_solution (vrp_solver.py 200-270).                    *)
(***************************************************************************)
PlanPath(plan) == <<0>> \o plan.nodes \o <<0>>

RouteOfPlan(v, plan) ==
  LET path == PlanPath(plan)
  IN [ vehicle_id |-> v,
       stops |-> [k \in DOMAIN path |->
                    [location_index |-> path[k], time_minutes |-> plan.times[k]]],
       distance_km |-> SeqSum([k \in 1..(Len(path) - 1) |->
                                 distance_matrix[path[k]][path[k + 1]]]),
       duration_minutes |-> SeqSum([k \in 1..(Len(path) - 1) |->
                                 duration_matrix[path[k]][path[k + 1]]]) ]

\* the length test off by one: the faulty variant of RouteKept under which
\* C1 fails
RouteKeptAboveThree(route) == Len(route.stops) > MinRouteLen + 1

\* line 252: only routes that have stops beyond the two depot visits
RouteKept(route) == Len(route.stops) > MinRouteLen

extract_solution(S, plans) ==
  LET all == [i \in DOMAIN plans |-> RouteOfPlan(i - 1, plans[i])]
      kept == SelectIdx(all, 1, [i \in DOMAIN all |-> RouteKept(all[i])])
      visited == UNION {Range(plans[i].nodes) : i \in DOMAIN plans}
  IN [ routes |-> kept,
       total_distance_km |-> SeqSum([i \in DOMAIN kept |-> kept[i].distance_km]),
       total_duration_minutes |-> SeqSum([i \in DOMAIN kept |-> kept[i].duration_minutes]),
       num_routes |-> Len(kept),
       dropped_nodes |-> SortedSeq((1..(S.num_locations - 1)) \ visited) ]

(***************************************************************************)
(* Lines 383-395: the solver call.                                         *)
(***************************************************************************)
Solve ==
  /\ pc = "solve"
  /\ calls' = [calls EXCEPT !.solve = @ + 1]
  /\ \/ \E plans \in FeasiblePlans(Val(solver)) :
           /\ solution' = Some(extract_solution(Val(solver), plans))
           /\ pc' = "analyze_dropped"
           /\ UNCHANGED <<response, session>>
     \/ \* solve raises, or returns None: no solution within the time limit
        \E kind \in {"solver_exception", "no_solution"} :
           /\ Raise(HTTPException(500, kind, <<>>))
           /\ UNCHANGED solution
  /\ UNCHANGED <<inputVars, dbVars, loadVars, buildVars, solver,
                 dropped_address_details>>

(***************************************************************************)
(* Lines 404-450: the diagnostics of the dropped nodes.                    *)
(***************************************************************************)
\* VRPSolver.analyze_dropped_nodes: the three heuristics of the design
NarrowTimeWindow(S, node) ==
  2 * (S.time_windows[node][2] - S.time_windows[node][1]) < max_duration_overall(S)

HighServiceTime(S, node) ==
  S.service_times[node] > 2 * DefaultServiceTime

analyze_dropped_nodes(S, node) ==
  LET specific == (IF NarrowTimeWindow(S, node) THEN {"narrow_time_window"} ELSE {})
                    \cup (IF HighServiceTime(S, node) THEN {"high_service_time"} ELSE {})
  IN IF specific = {} THEN {"capacity_or_duration"} ELSE specific

\* node 1 filtered out together with the depot: the faulty variant of
\* dropped_address_nodes under which C10 fails
dropped_nodes_above_one(sol) ==
  SelectIdx(sol.dropped_nodes, 1,
            [k \in DOMAIN sol.dropped_nodes |-> sol.dropped_nodes[k] > 1])

\* lines 409-412
dropped_address_nodes(sol) ==
  SelectIdx(sol.dropped_nodes, 1,
            [k \in DOMAIN sol.dropped_nodes |-> sol.dropped_nodes[k] # 0])

\* the catch-all left out of the reason: the faulty variant of reason_of
\* under which C15 fails
reason_specific_only(analysis) == analysis \ {"capacity_or_duration"}

\* lines 424-436: the reason of one diagnostic, with the fallback of
\* line 436 when the analysis names nothing
reason_of(analysis) ==
  IF analysis = {} THEN {"capacity_or_duration"} ELSE analysis

AnalyzeDropped ==
  /\ pc = "analyze_dropped"
  /\ LET nodes == dropped_address_nodes(Val(solution))
         amap == address_map(addresses)
     IN IF \E k \in DOMAIN nodes : nodes[k] \notin DOMAIN amap
        THEN \* address_map[node_idx] raises KeyError, caught at line 441
             /\ Raise(HTTPException(500, "dropped_analysis", <<>>))
             /\ UNCHANGED dropped_address_details
        ELSE /\ dropped_address_details' =
                  [k \in DOMAIN nodes |->
                     [address_id |-> amap[nodes[k]].id,
                      reason |-> reason_of(analyze_dropped_nodes(Val(solver), nodes[k]))]]
             /\ pc' = "upsert_day"
             /\ UNCHANGED <<response, session>>
  /\ UNCHANGED <<inputVars, dbVars, loadVars, buildVars, solver, solution, calls>>

(***************************************************************************)
(* Lines 452-484: the delivery day of the date is read, its routes are     *)
(* marked for deletion or a new day is added, the totals are set.          *)
(***************************************************************************)
MaxId(rows) ==
  IF rows = {} THEN 0
  ELSE LET ids == {r.id : r \in rows} IN CHOOSE m \in ids : \A n \in ids : m >= n

DayOfDate(date) == {d \in delivery_days : d.date = date}

\* the routes of an earlier run kept beside the new ones: the faulty
\* variant of existing_routes under which C12 fails
existing_routes_none(dayId) == {}

\* lines 460-463: the ids of the routes stored for the day
existing_routes(dayId) == {r.id : r \in {q \in routes : q.delivery_day_id = dayId}}

UpsertDeliveryDay ==
  /\ pc = "upsert_day"
  /\ LET sol == Val(solution)
         existing == DayOfDate(request.date)
         dayId == IF existing # {} THEN Val(existing).id ELSE MaxId(delivery_days) + 1
         day == [ id |-> dayId, date |-> request.date, status |-> "optimized",
                  total_stops |-> Len(addresses) - Len(sol.dropped_nodes),
                  total_drivers |-> sol.num_routes,
                  total_distance_km |-> sol.total_distance_km,
                  total_duration_minutes |-> sol.total_duration_minutes ]
     IN session' = [ day |-> Some(day),
                     deleted |-> IF existing # {} THEN existing_routes(dayId) ELSE {},
                     routes |-> <<>> ]
  /\ pc' = "create_route"
  /\ UNCHANGED <<inputVars, dbVars, loadVars, buildVars, solveVars, response, calls>>

(***************************************************************************)
(* Lines 486-589: one iteration of the loop over solution['routes'].       *)
(***************************************************************************)
\* the return to the depot left in the path: the faulty variant of
\* route_locations under which C25 fails
route_locations_with_return(route_data, drv) ==
  [k \in DOMAIN route_data.stops |->
     locations[route_data.stops[k].location_index + 1]]

\* lines 494-501: the places handed to the geometry lookup
route_locations(route_data, drv) ==
  LET n == Len(route_data.stops)
  IN [k \in 1..n |->
        IF k = n /\ drv.id \in Range(drivers_ending_at_home)
        THEN HomeCoords(drv.id)
        ELSE locations[route_data.stops[k].location_index + 1]]

\* OSRMService.get_route_geometry: distance and duration along the path
get_route_geometry(path) ==
  [ distance_km |-> SeqSum([k \in 1..(Len(path) - 1) |-> OracleDistance(path[k], path[k + 1])]),
    duration_minutes |-> SeqSum([k \in 1..(Len(path) - 1) |-> OracleDuration(path[k], path[k + 1])]) ]

\* lines 555-587: the RouteStop rows of one route; j is the 0-based index
\* of enumerate(route_data['stops'])
IsDelivery(location_idx, addrs) ==
  location_idx # 0 /\ location_idx \in DOMAIN address_map(addrs)

StopSequence(j) == j

route_stops(route_data, addrs) ==
  LET stops == route_data.stops
      rows == [k \in DOMAIN stops |->
                 LET location_idx == stops[k].location_index
                     j == k - 1
                 IN IF IsDelivery(location_idx, addrs)
                    THEN [ address_id |-> address_map(addrs)[location_idx].id,
                           sequence |-> StopSequence(j),
                           arrival |-> stops[k].time_minutes,
                           departure |-> stops[k].time_minutes
                              + Val(address_map(addrs)[location_idx].service_time_minutes) ]
                    ELSE [address_id |-> 0, sequence |-> j, arrival |-> 0, departure |-> 0]]
  IN SelectIdx(rows, 1, [k \in DOMAIN stops |-> IsDelivery(stops[k].location_index, addrs)])

\* line 576 adds address.service_time_minutes, which raises TypeError for None
DepartureRaises(route_data, addrs) ==
  \E k \in DOMAIN route_data.stops :
     /\ IsDelivery(route_data.stops[k].location_index, addrs)
     /\ address_map(addrs)[route_data.stops[k].location_index].service_time_minutes = None

\* the figures of the oracle used although the lookup failed: the faulty
\* variant of UsesOracleFigures under which C16 fails
UsesOracleFiguresOfHomeRoute(geometry_ok, ends_home) == ends_home

\* lines 505-522: the distance and the duration of the oracle are used for
\* a home-ending route whose geometry lookup succeeded, the solver's
\* otherwise (also in the except branch)
UsesOracleFigures(geometry_ok, ends_home) == geometry_ok /\ ends_home

NewRoute(i, route_data, geometry_ok, dayId, routeId) ==
  LET drv == drivers[route_data.vehicle_id + 1]
      ends_home == drv.id \in Range(drivers_ending_at_home)
      geometry_data == get_route_geometry(route_locations(route_data, drv))
      use_oracle == UsesOracleFigures(geometry_ok, ends_home)
      actual_distance_km == IF use_oracle THEN geometry_data.distance_km
                            ELSE route_data.distance_km
      actual_duration_minutes == IF use_oracle THEN geometry_data.duration_minutes
                                 ELSE route_data.duration_minutes
      start_minutes == route_data.stops[1].time_minutes
      end_minutes == IF ends_home
                     THEN (2 * start_minutes + actual_duration_minutes) \div 2
                     ELSE route_data.stops[Len(route_data.stops)].time_minutes
  IN [ id |-> routeId, delivery_day_id |-> dayId, driver_id |-> drv.id,
       route_number |-> i,
       total_stops |-> Len(route_data.stops) - 2,
       total_distance_km |-> actual_distance_km,
       total_duration_minutes |-> actual_duration_minutes,
       route_geometry |-> geometry_ok,
       start_minutes |-> start_minutes, end_minutes |-> end_minutes,
       stops |-> route_stops(route_data, addresses) ]

CreateRoute ==
  /\ pc = "create_route"
  /\ Len(session.routes) < Len(Val(solution).routes)
  /\ LET i == Len(session.routes) + 1
         route_data == Val(solution).routes[i]
         routeId == MaxId(routes \cup Range(session.routes)) + 1
     IN \E geometry_ok \in BOOLEAN :
          /\ calls' = [calls EXCEPT !.geometry = @ + 1]
          /\ IF DepartureRaises(route_data, addresses)
             THEN Raise(HTTPException(500, "internal_error", <<>>))
             ELSE /\ session' = [session EXCEPT !.routes =
                       Append(@, NewRoute(i, route_data, geometry_ok,
                                          Val(session.day).id, routeId))]
                  /\ UNCHANGED <<pc, response>>
  /\ UNCHANGED <<inputVars, dbVars, loadVars, buildVars, solveVars>>

(***************************************************************************)
(* Lines 591-620: commit, re-query of the routes of the day, the result.   *)
(***************************************************************************)
\* the location indices reported in place of the address ids: the faulty
\* variant of dropped_address_ids under which C14 fails
dropped_node_indices(sol, addrs) == dropped_address_nodes(sol)

dropped_address_ids(sol, addrs) ==
  LET nodes == dropped_address_nodes(sol)
  IN [k \in DOMAIN nodes |-> address_map(addrs)[nodes[k]].id]

Commit ==
  /\ pc = "create_route"
  /\ Len(session.routes) = Len(Val(solution).routes)
  /\ LET day == Val(session.day)
     IN /\ delivery_days' = {d \in delivery_days : d.id # day.id} \cup {day}
        /\ routes' = {r \in routes : r.id \notin session.deleted}
                        \cup Range(session.routes)
        /\ response' = Reply(200, "ok", <<>>,
                             {r \in routes' : r.delivery_day_id = day.id},
                             dropped_address_ids(Val(solution), addresses),
                             dropped_address_details)
  /\ session' = NoSession
  /\ pc' = "done"
  /\ UNCHANGED <<inputVars, loadVars, buildVars, solveVars, calls>>

Next ==
  \/ FetchAddresses
  \/ FetchDrivers
  \/ ResolveHomeEnding
  \/ CollectConstraints
  \/ FetchMatrix
  \/ ConfigureSolver
  \/ Solve
  \/ AnalyzeDropped
  \/ UpsertDeliveryDay
  \/ CreateRoute
  \/ Commit

Spec == Init /\ [][Next]_vars

(***************************************************************************)
(* Requests that follow each other on the same tables: when a request has  *)
(* ended, the next one arrives, for either date.                           *)
(***************************************************************************)
\* one driver, with and without an earlier day, with and without a service
\* time of address 1
SeqScenarios ==
  { [DefaultScenario EXCEPT !.driver_ids = {1}, !.a1_service = s, !.prior = p] :
      s \in {Some(DefaultServiceTime), None}, p \in BOOLEAN }

NextRequest ==
  /\ pc = "done"
  /\ round < MaxRequests
  /\ round' = round + 1
  /\ \E date \in Dates : \E ids \in {request.address_ids, {1}} :
        request' = [request EXCEPT !.date = date, !.address_ids = ids]
  /\ pc' = "fetch_addresses"
  /\ addresses' = <<>>
  /\ drivers' = <<>>
  /\ drivers_ending_at_home' = <<>>
  /\ locations' = <<>>
  /\ preferred_driver_constraints' = <<>>
  /\ preferred_driver_errors' = <<>>
  /\ gender_preference_errors' = <<>>
  /\ solver' = None
  /\ solution' = None
  /\ dropped_address_details' = <<>>
  /\ session' = NoSession
  /\ response' = Running
  /\ calls' = NoCalls
  /\ UNCHANGED <<db_address, db_driver, rival, dbVars>>

InitSeq == \E sc \in SeqScenarios : \E date \in Dates : Start(sc, date) /\ rival = NoRival

NextSeq == Next \/ NextRequest

SpecSeq == InitSeq /\ [][NextSeq]_vars

(***************************************************************************)
(* Two requests for the same date on one event loop.  optimize_routes is   *)
(* a coroutine: between two awaits it runs without giving the loop away,   *)
(* and the second request runs only while the first one waits at an await. *)
(* The second request is followed from the point where it is accepted to   *)
(* its persistence steps; what it computes is one route.                   *)
(***************************************************************************)
\* the positions at which the handler is not at an await: lines 106-228
\* after the drivers query, and lines 243-450 after the matrix lookup, with
\* the plain call solver.solve(...) of line 385 and
\* routing.SolveWithParameters of vrp_solver.py line 192 inside
SynchronousPositions ==
  {"resolve_home", "collect_constraints", "configure_solver", "solve",
   "analyze_dropped"}

LoopFree == pc \notin SynchronousPositions

\* the handler holds the write transaction of the database from its first
\* flush (line 484) to its commit or rollback
WriteTransactionOpen == session.day # None

\* the route and the day the second request computes
RivalRoute(routeId, dayId) ==
  [PriorRoute EXCEPT !.id = routeId, !.delivery_day_id = dayId]

RivalDay(dayId, date) == [PriorDay EXCEPT !.id = dayId, !.date = date]

\* lines 47-450 of the second request: accepted, validated, solved
RivalAccept ==
  /\ rival.pc = "pending"
  /\ LoopFree
  /\ rival' = [rival EXCEPT !.pc = "accepted"]
  /\ UNCHANGED <<db_address, db_driver, request, round, dbVars, pc, loadVars,
                 buildVars, solveVars, session, response, calls>>

\* lines 453-463 of the second request: the day of the date is read and,
\* when there is one, its routes
RivalRead ==
  /\ rival.pc = "accepted"
  /\ LoopFree
  /\ LET existing == DayOfDate(request.date)
     IN rival' = [rival EXCEPT
                    !.pc = "read",
                    !.day = existing,
                    !.existing = IF existing # {}
                                 THEN existing_routes(Val(existing).id) ELSE {}]
  /\ UNCHANGED <<db_address, db_driver, request, round, dbVars, pc, loadVars,
                 buildVars, solveVars, session, response, calls>>

\* lines 465-591 of the second request, from its first flush to its
\* commit: the routes it has read are deleted, the day is added or
\* updated, its route is added.  The day it adds violates the unique
\* constraint of delivery_days.date when the date has a day by now.
RivalWrite ==
  /\ rival.pc = "read"
  /\ LoopFree
  /\ ~WriteTransactionOpen
  /\ IF rival.day = None /\ DayOfDate(request.date) # {}
     THEN /\ rival' = [rival EXCEPT !.pc = "failed"]
          /\ UNCHANGED dbVars
     ELSE LET dayId == IF rival.day # None THEN Val(rival.day).id
                       ELSE MaxId(delivery_days) + 1
              routeId == MaxId(routes) + 1
          IN /\ delivery_days' = {d \in delivery_days : d.id # dayId}
                                    \cup {RivalDay(dayId, request.date)}
             /\ routes' = {r \in routes : r.id \notin rival.existing}
                             \cup {RivalRoute(routeId, dayId)}
             /\ rival' = [rival EXCEPT !.pc = "done", !.created = {routeId}]
  /\ UNCHANGED <<db_address, db_driver, request, round, pc, loadVars,
                 buildVars, solveVars, session, response, calls>>

\* the second request ends with an error before it has written
RivalFails ==
  /\ rival.pc \in {"accepted", "read"}
  /\ LoopFree
  /\ rival' = [rival EXCEPT !.pc = "failed"]
  /\ UNCHANGED <<db_address, db_driver, request, round, dbVars, pc, loadVars,
                 buildVars, solveVars, session, response, calls>>

RivalStep == RivalAccept \/ RivalRead \/ RivalWrite \/ RivalFails

InitPair == \E sc \in SeqScenarios : Start(sc, TheDate) /\ rival = PendingRival

NextPair == Next \/ RivalAccept \/ RivalRead \/ RivalWrite \/ RivalFails

SpecPair == InitPair /\ [][NextPair]_vars

(***************************************************************************)
(* Vocabulary of the properties.                                           *)
(***************************************************************************)
Done == pc = "done"
Succeeded == Done /\ response.status = 200

\* the stops and the active drivers of the request, from the inputs alone
RequestStops == Range(QueryAddresses(request.address_ids))
ActiveDrivers == Range(QueryDrivers(request.driver_ids))
ActiveDriverIds == {d.id : d \in ActiveDrivers}

\* nothing was written: the persistent state is one of the two initial ones
NothingPersisted ==
  /\ session = NoSession
  /\ \/ delivery_days = {} /\ routes = {}
     \/ delivery_days = {PriorDay} /\ routes = {PriorRoute}

\* how often address a occurs as a stop record of the returned routes
StopRecords(a) ==
  UNION { { <<r.id, k>> : k \in {j \in DOMAIN r.stops : r.stops[j].address_id = a} }
          : r \in response.routes }

DroppedOccurrences(a) ==
  {k \in DOMAIN response.dropped_addresses : response.dropped_addresses[k] = a}

\* C1: in a successful run every input stop is exactly once in the result:
\* one stop record in one returned route, or one entry of the dropped
\* list; so routed stops plus dropped stops are the input stops.
C1_EachStopExactlyOnce ==
  Succeeded =>
    /\ \A i \in DOMAIN addresses :
         Cardinality(StopRecords(addresses[i].id))
           + Cardinality(DroppedOccurrences(addresses[i].id)) = 1
    /\ SeqSum([i \in DOMAIN addresses |-> Cardinality(StopRecords(addresses[i].id))])
         + Len(response.dropped_addresses) = Len(addresses)

\* a successful run with one stop routed and the other dropped
C1_Witness ==
  /\ Succeeded
  /\ Len(addresses) = 2
  /\ Len(response.dropped_addresses) = 1
  /\ \E r \in response.routes : Len(r.stops) = 1

PreferredDriverActive(addr) ==
  addr.preferred_driver_id # None /\ Val(addr.preferred_driver_id) \in ActiveDriverIds

RoutedIn(r, a) == \E k \in DOMAIN r.stops : r.stops[k].address_id = a

BeforeConstraintCheck ==
  {"fetch_addresses", "fetch_drivers", "resolve_home", "collect_constraints"}

\* the stops whose preferred driver is not among the active drivers
PreferredDriverAbsent ==
  {a \in RequestStops :
     a.preferred_driver_id # None /\ Val(a.preferred_driver_id) \notin ActiveDriverIds}

\* every address and driver the request names is found (lines 82-104)
AllFound ==
  /\ Cardinality(RequestStops) = Cardinality(request.address_ids)
  /\ Cardinality(ActiveDrivers) = Cardinality(request.driver_ids)
  /\ ActiveDrivers # {}

\* no active driver is flagged to end at home without home coordinates
NoHomelessFlagged == FlaggedWithoutHome(QueryDrivers(request.driver_ids)) = {}

\* no allowed-vehicle constraint exists for a stop of S
NoConstraintFor(S) ==
  /\ \A i \in DOMAIN preferred_driver_constraints :
       i \in DOMAIN addresses => addresses[i] \notin S
  /\ solver # None =>
       \A i \in DOMAIN Val(solver).allowed_vehicles :
         i \in DOMAIN addresses => addresses[i] \notin S

ListsExactly(kind, S) ==
  /\ response.detail.kind = kind
  /\ Range(response.detail.items) = {a.id : a \in S}
  /\ Len(response.detail.items) = Cardinality(S)

\* C3 as stated: a stop (of a request whose addresses and drivers are all
\* found) with a preferred driver outside the active drivers makes the
\* request fail with a 400 whose detail lists exactly those stops; no
\* constraint of such a stop reaches the solver, the solver is not
\* invoked, nothing is persisted.
C3_AsStated ==
  AllFound /\ PreferredDriverAbsent # {} =>
    /\ pc \in BeforeConstraintCheck \cup {"done"}
    /\ Done => response.status = 400 /\ ListsExactly("preferred_driver", PreferredDriverAbsent)
    /\ NoConstraintFor(PreferredDriverAbsent)
    /\ calls.solve = 0
    /\ NothingPersisted

\* C3 (amended): the request fails with a 400, no constraint of such a stop
\* reaches the solver, the solver is not invoked and nothing is persisted;
\* the detail lists exactly those stops unless an active driver is flagged
\* to end at home without home coordinates, in which case the detail is
\* that of the home check, which runs first.
C3_PreferredDriverAbsentFails ==
  AllFound /\ PreferredDriverAbsent # {} =>
    /\ pc \in BeforeConstraintCheck \cup {"done"}
    /\ Done => response.status = 400
    /\ Done /\ NoHomelessFlagged
         => ListsExactly("preferred_driver", PreferredDriverAbsent)
    /\ Done /\ ~NoHomelessFlagged => response.detail.kind = "no_home_address"
    /\ NoConstraintFor(PreferredDriverAbsent)
    /\ calls.solve = 0
    /\ NothingPersisted

\* two stops, one of them with an absent preferred driver: only it is listed
C3_Witness ==
  /\ Done
  /\ response.status = 400
  /\ response.detail.kind = "preferred_driver"
  /\ Len(addresses) = 2
  /\ Len(response.detail.items) = 1
  /\ \E i \in DOMAIN addresses : PreferredDriverActive(addresses[i])

HasTag(tag) == \E d \in ActiveDrivers : d.gender = tag

\* the stops that ask for one gender that no active driver carries
GenderUnmatched ==
  {a \in RequestStops :
     \/ WantsMaleOnly(a) /\ ~HasTag("male")
     \/ WantsFemaleOnly(a) /\ ~HasTag("female")}

FailsValidationNoRoutes ==
  /\ pc \in BeforeConstraintCheck \cup {"done"}
  /\ Done => response.status = 400 /\ response.routes = {}
  /\ solution = None
  /\ NothingPersisted

\* C4 as stated: a stop that requests a gender no active driver has makes
\* the request fail validation and produce no routes.
C4_AsStated == GenderUnmatched # {} => FailsValidationNoRoutes

\* C4 (amended): a stop without a preferred driver that requests one gender
\* no active driver has makes the request fail validation and produce no
\* routes.
C4_GenderUnmatchedFails ==
  {a \in GenderUnmatched : a.preferred_driver_id = None} # {}
     => FailsValidationNoRoutes

\* the request ended with the gender validation error
C4_Witness ==
  /\ Done
  /\ response.status = 400
  /\ response.detail.kind = "gender_preference"
  /\ response.detail.items # <<>>
  /\ Len(drivers) = 2

\* the stop asks for the gender tag and has no preferred driver
AsksForTag(addr, tag) ==
  /\ addr.preferred_driver_id = None
  /\ \/ tag = "male" /\ WantsMaleOnly(addr)
     \/ tag = "female" /\ WantsFemaleOnly(addr)

\* the vehicles whose driver carries the tag
VehiclesWithTag(tag) == {i - 1 : i \in {j \in DOMAIN drivers : drivers[j].gender = tag}}

SolverConfigured == solver # None /\ Val(solver).num_vehicles > 0

NodesOf(route_data) ==
  {route_data.stops[k].location_index : k \in DOMAIN route_data.stops}

\* C5: for a stop without preferred driver that asks for one gender which
\* some active driver carries, the allowed vehicles given to the solver
\* are exactly the vehicles of the drivers with that tag, and in every
\* solution and every persisted result the stop is in the route of such
\* a driver or in no route.
C5_GenderAllowedVehicles ==
  \A tag \in {"male", "female"} : \A i \in DOMAIN addresses :
    AsksForTag(addresses[i], tag) /\ VehiclesWithTag(tag) # {} =>
      /\ SolverConfigured =>
           /\ i \in DOMAIN Val(solver).allowed_vehicles
           /\ Range(Val(solver).allowed_vehicles[i]) = VehiclesWithTag(tag)
      /\ solution # None =>
           \A k \in DOMAIN Val(solution).routes :
             i \in NodesOf(Val(solution).routes[k])
               => Val(solution).routes[k].vehicle_id \in VehiclesWithTag(tag)
      /\ Succeeded =>
           \A r \in response.routes :
             RoutedIn(r, addresses[i].id) => db_driver[r.driver_id].gender = tag

\* a stop asks for a female driver, one of two drivers is female and the
\* other is not, and the stop is in the female driver's route
C5_Witness ==
  /\ Succeeded
  /\ Len(drivers) = 2
  /\ \E i \in DOMAIN addresses :
       /\ AsksForTag(addresses[i], "female")
       /\ Cardinality(VehiclesWithTag("female")) = 1
       /\ \E r \in response.routes : RoutedIn(r, addresses[i].id)

\* a driver the request names is flagged to end at home and has no stored
\* home coordinates
HomelessRequested ==
  \E d \in request.driver_ids \cap DOMAIN db_driver :
     /\ HasConstraints(d)
     /\ request.driver_constraints[d].end_at_home
     /\ db_driver[d].home = None

\* C6: if a driver of the request is flagged to end at home without stored
\* home coordinates, the request fails validation; neither the oracle nor
\* the solver is called and nothing is persisted or deleted.
C6_HomelessDriverFails ==
  HomelessRequested =>
    /\ pc \in {"fetch_addresses", "fetch_drivers", "resolve_home", "done"}
    /\ Done => response.status = 400 /\ response.routes = {}
    /\ calls = NoCalls
    /\ NothingPersisted

\* the home check failed and the earlier routes of the date are still there
C6_Witness ==
  /\ Done
  /\ response.status = 400
  /\ response.detail.kind = "no_home_address"
  /\ routes = {PriorRoute}
  /\ delivery_days = {PriorDay}

LastStop(route_data) == route_data.stops[Len(route_data.stops)]

\* C7: in every returned route the cumulative time at the end node is at
\* most the max route duration configured for that vehicle's driver.
C7_EndWithinOwnMaxDuration ==
  solution # None =>
    \A k \in DOMAIN Val(solution).routes :
      LET route_data == Val(solution).routes[k]
      IN LastStop(route_data).time_minutes
           <= max_duration_of(drivers[route_data.vehicle_id + 1])

\* a route of a vehicle whose own max duration is below the largest one
C7_Witness ==
  /\ solution # None
  /\ \E k \in DOMAIN Val(solution).routes :
       LET route_data == Val(solution).routes[k]
       IN /\ max_duration_of(drivers[route_data.vehicle_id + 1])
               < max_overall_duration(drivers)
          /\ LastStop(route_data).time_minutes > 0

DeliveriesOf(route_data) ==
  {k \in DOMAIN route_data.stops :
     route_data.stops[k].location_index \in 1..Len(addresses)}

C9_SequenceFromZero ==
  Succeeded =>
    \A r \in response.routes :
      \A k \in DOMAIN r.stops : r.stops[k].sequence = k - 1

SolverErrors == {"solver_exception", "no_solution"}

\* the address ids of the nodes the solution left out of every route
UnroutedIds ==
  {addresses[n].id : n \in {m \in DOMAIN addresses :
      \A k \in DOMAIN Val(solution).routes : m \notin NodesOf(Val(solution).routes[k])}}

\* a route of the solution visits an address that has no service time:
\* line 576 raises TypeError while the stop records are written
WritesStopWithoutServiceTime ==
  \E k \in DOMAIN Val(solution).routes :
     DepartureRaises(Val(solution).routes[k], addresses)

C10_WitnessNoSolution ==
  /\ Done
  /\ response.detail.kind = "no_solution"
  /\ routes = {PriorRoute}

\* the positions of the handler before the solver is called
PreSolvePositions == BeforeConstraintCheck \cup {"fetch_matrix", "configure_solver"}

\* a stop of the request has coordinates out of range
BadCoordinates == \E a \in RequestStops : ~a.coords_ok

\* the matrix the oracle returned is smaller than the location list
MatrixShort == solver # None /\ Val(solver).num_locations # Len(locations)

PreSolveFailure ==
  \/ PreferredDriverAbsent # {}
  \/ {a \in GenderUnmatched : a.preferred_driver_id = None} # {}
  \/ HomelessRequested
  \/ BadCoordinates
  \/ MatrixShort
  \/ response.detail.kind = "distance_matrix"

\* C11: when a pre-solve validation fails (preferred driver absent, gender
\* unmatched, end at home without home coordinates, coordinates out of
\* range, matrix smaller than the location list) or the matrix lookup
\* fails, the request never reaches the solver, ends in an error, and no
\* write is pending or stored at any moment: days and routes are unchanged.
C11_AbortBeforeSolveAndWrites ==
  PreSolveFailure =>
    /\ pc \in PreSolvePositions \cup {"done"}
    /\ Done => response.status \in {400, 500}
    /\ calls.solve = 0 /\ calls.geometry = 0
    /\ solution = None
    /\ NothingPersisted

\* the coordinates check failed and the earlier routes are still there
C11_Witness ==
  /\ Done
  /\ response.status = 500
  /\ response.detail.kind = "invalid_coordinates"
  /\ calls.matrix = 1
  /\ routes = {PriorRoute}
  /\ delivery_days = {PriorDay}

\* at most one delivery-day record per date
OneDayPerDate ==
  \A d1 \in delivery_days : \A d2 \in delivery_days : d1.date = d2.date => d1 = d2

RoutesOfDate(rows, days, date) ==
  {r \in rows : \E d \in days : d.date = date /\ d.id = r.delivery_day_id}

\* the request ends with this step
Ends == pc # "done" /\ pc' = "done"

\* a successful end replaces the route set of the date of the request by
\* the routes of the request, one per route of the solution, and leaves
\* the days and routes of every other date as they are
ReplacesRouteSet ==
  LET new == Range(session.routes)
  IN /\ Cardinality(new) = Len(Val(solution).routes)
     /\ RoutesOfDate(routes', delivery_days', request.date) = new
     /\ new \cap routes = {}
     /\ \A date \in Dates \ {request.date} :
          /\ RoutesOfDate(routes', delivery_days', date)
               = RoutesOfDate(routes, delivery_days, date)
          /\ {d \in delivery_days' : d.date = date} = {d \in delivery_days : d.date = date}
     /\ \A r \in routes' : \E d \in delivery_days' : d.id = r.delivery_day_id

StoredStep ==
  /\ Ends /\ response'.status = 200 => ReplacesRouteSet
  /\ ~(Ends /\ response'.status = 200) => UNCHANGED dbVars

\* C12: over any sequence of requests there is at most one delivery-day
\* record per date; a request that ends successfully replaces the routes
\* stored for its date by exactly its own complete route set (no earlier
\* route of the date survives, other dates are untouched); every other
\* step, and every request that fails at any point, leaves the stored
\* days and routes as they were.
C12_ReplaceAllPerDate == [](OneDayPerDate) /\ [][StoredStep]_vars

\* the second request succeeded for a date that had a route of an earlier
\* successful request, while a day of the other date is stored as well
C12_Witness ==
  /\ round = 2
  /\ Succeeded
  /\ Cardinality(delivery_days) = 2
  /\ response.routes # {}
  /\ routes # response.routes
  /\ MaxId(routes) > Cardinality(routes)

\* the delivery nodes of the solver model: one per address
AddressNodes == 1..Len(addresses)

\* every route of the solution serves a delivery, every delivery node that
\* is not dropped is in a route, and no vehicle has two routes
RoutesServeDeliveries(sol) ==
  /\ \A k \in DOMAIN sol.routes : DeliveriesOf(sol.routes[k]) # {}
  /\ \A n \in AddressNodes :
       n \in Range(sol.dropped_nodes) \/ \E k \in DOMAIN sol.routes : n \in NodesOf(sol.routes[k])
  /\ \A k \in DOMAIN sol.routes : \A l \in DOMAIN sol.routes :
       sol.routes[k].vehicle_id = sol.routes[l].vehicle_id => k = l

\* C13: a route is emitted and persisted for a vehicle exactly if the
\* vehicle served a delivery: every route of a solution has a delivery
\* stop, every served delivery is in the route of its vehicle, and every
\* persisted route has a stop record; a home-ending vehicle that visits
\* only its home terminal has no route.
C13_RouteIffDelivery ==
  /\ solution # None => RoutesServeDeliveries(Val(solution))
  /\ Succeeded =>
       /\ Cardinality(response.routes) = Len(Val(solution).routes)
       /\ \A r \in response.routes : Len(r.stops) >= 1

\* the same for the runs in which no driver ends at home
C13_WithoutHomeEnding ==
  drivers_ending_at_home = <<>> => C13_RouteIffDelivery

AddressIdsOfRun == {addresses[i].id : i \in DOMAIN addresses}

\* the location indices of the home terminals
HomeNodes == (Len(addresses) + 1)..(Len(addresses) + Len(drivers_ending_at_home))

\* the route of the solution a persisted route was made from
SolutionRouteOf(r) == Val(solution).routes[r.route_number]

NodeOfAddress(id) == CHOOSE i \in AddressNodes : addresses[i].id = id

\* C15: every dropped stop has exactly one diagnostic and the diagnostics
\* are those of the dropped stops; a diagnostic has a reason, and the
\* reason is the capacity/duration catch-all when the stop has neither a
\* narrow time window nor a high service time.
C15_OneDiagnosticPerDropped ==
  Succeeded =>
    LET details == response.dropped_address_details
        dropped == response.dropped_addresses
    IN /\ Cardinality(Range(dropped)) = Len(dropped)
       /\ [k \in DOMAIN details |-> details[k].address_id] = dropped
       /\ \A k \in DOMAIN details :
            /\ details[k].reason # {}
            /\ (~NarrowTimeWindow(Val(solver), NodeOfAddress(details[k].address_id))
                 /\ ~HighServiceTime(Val(solver), NodeOfAddress(details[k].address_id)))
               => details[k].reason = {"capacity_or_duration"}

\* one driver with at most one stop and two stops without a time window
\* and with the default service time: one is routed, the other is dropped
\* with the catch-all reason
C15_Witness ==
  /\ Succeeded
  /\ Len(drivers) = 1 /\ Val(solver).vehicle_capacities[0] = 1
  /\ Len(addresses) = 2
  /\ \A i \in AddressNodes :
       /\ addresses[i].preferred_time_start = None
       /\ addresses[i].preferred_time_end = None
       /\ addresses[i].service_time_minutes = Some(DefaultServiceTime)
  /\ Cardinality(response.routes) = 1
  /\ \A r \in response.routes : Len(r.stops) = 1
  /\ Len(response.dropped_address_details) = 1
  /\ response.dropped_address_details[1].reason = {"capacity_or_duration"}

EndsAtHome(r) == r.driver_id \in Range(drivers_ending_at_home)

\* what the oracle returns for the path of a persisted route
OracleFiguresOf(r) ==
  get_route_geometry(route_locations(SolutionRouteOf(r),
                                     drivers[SolutionRouteOf(r).vehicle_id + 1]))

\* a persisted route whose geometry lookup failed has no geometry and the
\* distance and duration of the solver; one whose lookup succeeded has
\* what it has when no lookup fails; the stop records are the same in
\* both cases
GeometryFailureIsLocal(r) ==
  LET route_data == SolutionRouteOf(r)
  IN /\ ~r.route_geometry =>
          /\ r.total_distance_km = route_data.distance_km
          /\ r.total_duration_minutes = route_data.duration_minutes
     /\ r.route_geometry =>
          /\ r.total_distance_km = IF EndsAtHome(r) THEN OracleFiguresOf(r).distance_km
                                   ELSE route_data.distance_km
          /\ r.total_duration_minutes =
               IF EndsAtHome(r) THEN OracleFiguresOf(r).duration_minutes
               ELSE route_data.duration_minutes
     /\ r.total_stops = Len(route_data.stops) - 2
     /\ r.stops = route_stops(route_data, addresses)

\* a step of the route loop that ends the request with an error
RouteLoopAborts == pc = "create_route" /\ pc' = "done" /\ response'.status # 200

\* C16: a failing geometry lookup does not abort the request: the route
\* is persisted without geometry and with the solver's distance and
\* duration, the other routes are what they are without the failure, and
\* every route of the solution is persisted.  The route loop aborts only
\* for a routed stop without a service time (line 576).
C16_GeometryFailureTolerated ==
  /\ [](Succeeded =>
          /\ Cardinality(response.routes) = Len(Val(solution).routes)
          /\ \A r \in response.routes : GeometryFailureIsLocal(r))
  /\ [][RouteLoopAborts =>
          DepartureRaises(Val(solution).routes[Len(session.routes) + 1], addresses)]_vars

\* a successful run with two routes: the lookup failed for a home-ending
\* route, for which the oracle's distance is not the solver's, and
\* succeeded for the other route
C16_Witness ==
  /\ Succeeded
  /\ \E r1 \in response.routes : \E r2 \in response.routes :
       /\ ~r1.route_geometry /\ EndsAtHome(r1)
       /\ OracleFiguresOf(r1).distance_km # r1.total_distance_km
       /\ r2.route_geometry

RivalInFlight == rival.pc \in {"pending", "accepted", "read"}

\* C17: the solver call runs off the event loop: while the first request
\* is in its solve, a second request that is in flight can take its next
\* step (be accepted, read, write and complete).
C17_SecondRequestServedDuringSolve ==
  (pc = "solve" /\ RivalInFlight) => ENABLED RivalStep

\* what the code does instead: from the return of the matrix lookup to
\* the end of the dropped-stop analysis the second request does not move
C17_LoopHeldThroughSolve ==
  [][(pc \in SynchronousPositions) => UNCHANGED rival]_vars

BothEnded == Done /\ rival.pc \in {"done", "failed"}

RivalRoutes == {r \in routes : r.id \in rival.created}

\* C18: when two requests for the same date have interleaved and both
\* have ended, the date has one delivery-day record, and when both have
\* succeeded its routes are the routes of exactly one of the two, never a
\* union or a mix.
C18_RoutesOfOneRequest ==
  BothEnded =>
    /\ OneDayPerDate
    /\ (Succeeded /\ rival.pc = "done") =>
         LET stored == RoutesOfDate(routes, delivery_days, request.date)
         IN \/ stored = RivalRoutes
            \/ /\ stored \cap RivalRoutes = {}
               /\ Cardinality(stored) = Len(Val(solution).routes)

\* the part that holds: the two requests never leave two delivery-day
\* records for the date
C18_OneDayRecord == BothEnded => OneDayPerDate

\* the first value that is there: the override of the request, the stored
\* default of the driver, the fixed fallback
FirstGiven(override, stored, fallback) ==
  IF override # None THEN Val(override)
  ELSE IF stored # None /\ Val(stored) # 0 THEN Val(stored)
  ELSE fallback

OverrideOf(drv, field) ==
  IF HasConstraints(drv.id) THEN request.driver_constraints[drv.id][field] ELSE None

\* a driver with an entry in the request that leaves field open and with
\* a stored default that is not the fixed fallback
PartialEntry(drv, field, fallback) ==
  /\ HasConstraints(drv.id)
  /\ request.driver_constraints[drv.id][field] = None
  /\ drv[field] # None /\ Val(drv[field]) \notin {0, fallback}

\* C19: the capacity and the maximal duration of every vehicle are the
\* override of the request when it gives one for the driver, else the
\* stored default of the driver, else 15 stops and 120 minutes; an entry
\* of the request without the value falls back to the stored default.
C19_OverrideThenStoredThenFixed ==
  solver # None =>
    \A v \in DOMAIN Val(solver).vehicle_capacities :
       /\ Val(solver).vehicle_capacities[v]
            = FirstGiven(OverrideOf(drivers[v + 1], "max_stops"),
                         drivers[v + 1].max_stops, DefaultMaxStops)
       /\ Val(solver).max_route_durations[v]
            = FirstGiven(OverrideOf(drivers[v + 1], "max_route_duration_minutes"),
                         drivers[v + 1].max_route_duration_minutes,
                         DefaultMaxDuration)

\* the chain holds for the vehicles whose driver has no entry that leaves
\* the value open
C19_WithoutPartialEntry ==
  solver # None =>
    \A v \in DOMAIN Val(solver).vehicle_capacities :
       /\ ~PartialEntry(drivers[v + 1], "max_stops", DefaultMaxStops)
            => Val(solver).vehicle_capacities[v]
                 = FirstGiven(OverrideOf(drivers[v + 1], "max_stops"),
                              drivers[v + 1].max_stops, DefaultMaxStops)
       /\ ~PartialEntry(drivers[v + 1], "max_route_duration_minutes",
                        DefaultMaxDuration)
            => Val(solver).max_route_durations[v]
                 = FirstGiven(OverrideOf(drivers[v + 1], "max_route_duration_minutes"),
                              drivers[v + 1].max_route_duration_minutes,
                              DefaultMaxDuration)

ValidationKinds == {"no_home_address", "preferred_driver", "gender_preference"}

\* the drivers of the run that are flagged to end at home and have no
\* home coordinates
HomelessFlaggedIds == {drivers[i].id : i \in FlaggedWithoutHome(drivers)}

\* the stops the two stop validations complain about
StopFailures(kind) ==
  IF kind = "preferred_driver" THEN PreferredDriverAbsent
  ELSE {a \in GenderUnmatched : a.preferred_driver_id = None}

ShortCircuited ==
  /\ solver = None /\ solution = None
  /\ calls = NoCalls
  /\ NothingPersisted

\* C20: a validation failure ends the request before the model is built,
\* and the error names all failures of its kind: all flagged drivers
\* without home coordinates, all stops with an absent preferred driver,
\* all stops with an unmatched gender preference.
C20_AllFailuresOfAKindNamed ==
  (Done /\ response.detail.kind \in ValidationKinds) =>
    /\ response.status = 400
    /\ ShortCircuited
    /\ response.detail.kind = "no_home_address"
         => Range(response.detail.items) = HomelessFlaggedIds
    /\ response.detail.kind # "no_home_address"
         => ListsExactly(response.detail.kind, StopFailures(response.detail.kind))

\* what holds: the stop validations name all their stops, the home
\* validation names the first flagged driver without home coordinates
C20_StopFailuresNamedTogether ==
  (Done /\ response.detail.kind \in ValidationKinds) =>
    /\ response.status = 400
    /\ ShortCircuited
    /\ response.detail.kind = "no_home_address"
         => /\ Len(response.detail.items) = 1
            /\ response.detail.items[1] \in HomelessFlaggedIds
            /\ \A d \in HomelessFlaggedIds : response.detail.items[1] <= d
    /\ response.detail.kind # "no_home_address"
         => ListsExactly(response.detail.kind, StopFailures(response.detail.kind))

\* two stops fail the same stop validation and both are named
C20_WitnessTwoStops ==
  /\ Done
  /\ response.detail.kind \in {"preferred_driver", "gender_preference"}
  /\ Len(response.detail.items) = 2

\* the loop of lines 150-198 has run
ConstraintsCollected == locations # <<>>

\* the one gender the stop asks for, when exactly one of its flags is set
OneFlag(addr) ==
  IF addr.prefers_male_driver /\ ~addr.prefers_female_driver THEN {"male"}
  ELSE IF addr.prefers_female_driver /\ ~addr.prefers_male_driver THEN {"female"}
  ELSE {}

GenderErrorFor(addr) == addr.id \in Range(gender_preference_errors)

\* C21: a stop without preferred driver and with exactly one gender flag
\* gets the vehicles of that gender as its allowed vehicles, or a gender
\* validation error when there are none; a stop with both flags or with
\* none gets neither; for a stop with a preferred driver the flags are
\* not looked at: no gender error, and a constraint only for the
\* preferred driver.
C21_GenderFlagsOnlyWhenOneAndNoPreferred ==
  ConstraintsCollected =>
    \A i \in DOMAIN addresses :
      LET addr == addresses[i]
          constrained == i \in DOMAIN preferred_driver_constraints
      IN /\ (addr.preferred_driver_id = None /\ OneFlag(addr) # {}) =>
              LET tagged == VehiclesWithTag(Val(OneFlag(addr)))
              IN IF tagged = {}
                 THEN GenderErrorFor(addr) /\ ~constrained
                 ELSE /\ ~GenderErrorFor(addr)
                      /\ constrained
                      /\ Range(preferred_driver_constraints[i]) = tagged
         /\ (addr.preferred_driver_id = None /\ OneFlag(addr) = {}) =>
              ~GenderErrorFor(addr) /\ ~constrained
         /\ addr.preferred_driver_id # None =>
              /\ ~GenderErrorFor(addr)
              /\ constrained =>
                   /\ Len(preferred_driver_constraints[i]) = 1
                   /\ drivers[preferred_driver_constraints[i][1] + 1].id
                        = Val(addr.preferred_driver_id)

\* a stop with both flags and no preferred driver, and a driver with a
\* gender tag: the constraints are collected and the stop has none
C21_Witness ==
  /\ ConstraintsCollected
  /\ pc = "fetch_matrix"
  /\ \E i \in DOMAIN addresses :
       /\ addresses[i].prefers_male_driver /\ addresses[i].prefers_female_driver
       /\ addresses[i].preferred_driver_id = None
       /\ i \notin DOMAIN preferred_driver_constraints
  /\ \E j \in DOMAIN drivers : drivers[j].gender # "none"

\* the start time configured for a driver, in minutes of the day
ConfiguredStart(drv) ==
  LET t == IF drv.id \in DOMAIN request.driver_constraints
                /\ request.driver_constraints[drv.id].start_time # None
           THEN Val(request.driver_constraints[drv.id].start_time)
           ELSE request.start_time
  IN 60 * t[1] + t[2]

Vehicles == 0..(Len(drivers) - 1)

\* C22: the start offset of every vehicle is its configured start time
\* minus the earliest configured start time of the active vehicles; no
\* offset is negative and one vehicle has offset 0.
C22_StartOffsetsShareOrigin ==
  SolverConfigured =>
    LET offsets == Val(solver).vehicle_start_offsets
    IN /\ DOMAIN offsets = Vehicles
       /\ \A v \in Vehicles :
            /\ offsets[v] >= 0
            /\ \E w \in Vehicles :
                 /\ \A u \in Vehicles :
                      ConfiguredStart(drivers[w + 1]) <= ConfiguredStart(drivers[u + 1])
                 /\ offsets[v] = ConfiguredStart(drivers[v + 1])
                                   - ConfiguredStart(drivers[w + 1])
       /\ \E v \in Vehicles : offsets[v] = 0

\* two vehicles with different start times: one starts at the origin,
\* the other later
C22_Witness ==
  /\ SolverConfigured
  /\ \E v \in Vehicles : Val(solver).vehicle_start_offsets[v] > 0
  /\ \E v \in Vehicles : Val(solver).vehicle_start_offsets[v] = 0

\* the only vehicle starts later than the global start time, and its
\* offset is 0
C22_WitnessLateOnly ==
  /\ SolverConfigured
  /\ Len(drivers) = 1
  /\ ConfiguredStart(drivers[1]) > 60 * request.start_time[1] + request.start_time[2]

\* C23: the location indices 1..(number of stops) are the stops of the
\* run, one index per stop; every home-ending driver has a location index
\* of its own behind them, which holds its home and is the mandatory
\* final stop of the vehicle at the driver's position in the driver list;
\* no other vehicle has a mandatory final stop.
C23_LocationIndices ==
  SolverConfigured =>
    LET final == Val(solver).mandatory_final_stops
        n == Len(addresses)
    IN /\ Len(locations) = 1 + n + Len(drivers_ending_at_home)
       /\ locations[1].kind = "depot"
       /\ \A i \in 1..n :
            /\ locations[i + 1] = [kind |-> "address", id |-> addresses[i].id]
            /\ \A j \in 1..n : addresses[i].id = addresses[j].id => i = j
       /\ DOMAIN final = {v \in Vehicles : drivers[v + 1].id \in Range(drivers_ending_at_home)}
       /\ \A v \in DOMAIN final :
            /\ final[v] \in (n + 1)..(Len(locations) - 1)
            /\ locations[final[v] + 1] = [kind |-> "home", id |-> drivers[v + 1].id]
            /\ \A w \in DOMAIN final : final[v] = final[w] => v = w
       /\ \A d \in Range(drivers_ending_at_home) :
            \E v \in DOMAIN final : drivers[v + 1].id = d

\* two home-ending drivers: two home indices behind the stops
C23_Witness ==
  /\ SolverConfigured
  /\ Len(drivers_ending_at_home) = 2
  /\ Len(addresses) = 2
  /\ Cardinality({Val(solver).mandatory_final_stops[v] :
                    v \in DOMAIN Val(solver).mandatory_final_stops}) = 2

\* the earliest configured start time of the vehicles, in minutes of the day
EarliestConfiguredStart ==
  LET starts == {ConfiguredStart(drivers[v + 1]) : v \in Vehicles}
  IN CHOOSE m \in starts : \A n \in starts : m <= n

\* the largest maximal duration of the vehicles
LargestMaxDuration ==
  LET durations == {Val(solver).max_route_durations[v] : v \in Vehicles}
  IN CHOOSE m \in durations : \A n \in durations : n <= m

\* a time of day in minutes after the earliest start
AfterEarliestStart(t) == 60 * t[1] + t[2] - EarliestConfiguredStart

\* the window the claim gives to a location index
ClaimedWindow(i) ==
  IF i \in AddressNodes
  THEN << IF addresses[i].preferred_time_start # None
          THEN AfterEarliestStart(Val(addresses[i].preferred_time_start)) ELSE 0,
          IF addresses[i].preferred_time_end # None
          THEN AfterEarliestStart(Val(addresses[i].preferred_time_end))
          ELSE LargestMaxDuration >>
  ELSE <<0, LargestMaxDuration>>

\* C24: the depot, the home terminals and the stops without preferred
\* times have the window (0, M), M the largest maximal duration of the
\* vehicles; a preferred start or end of a stop is the bound of its window
\* in minutes after the earliest start; in every route of a solution the
\* time at every node, the depot included, is within the window of the node.
C24_TimeWindows ==
  /\ SolverConfigured =>
       /\ DOMAIN Val(solver).time_windows = 0..(Len(locations) - 1)
       /\ \A i \in DOMAIN Val(solver).time_windows :
            Val(solver).time_windows[i] = ClaimedWindow(i)
  /\ solution # None =>
       \A r \in DOMAIN Val(solution).routes :
         \A k \in DOMAIN Val(solution).routes[r].stops :
           LET stop == Val(solution).routes[r].stops[k]
           IN /\ ClaimedWindow(stop.location_index)[1] <= stop.time_minutes
              /\ stop.time_minutes <= ClaimedWindow(stop.location_index)[2]

\* a route of a solution visits a stop that has a preferred start after
\* the earliest start and a preferred end, and a home terminal
C24_Witness ==
  /\ solution # None
  /\ \E r \in DOMAIN Val(solution).routes :
       LET route_data == Val(solution).routes[r]
       IN /\ NodesOf(route_data) \cap HomeNodes # {}
          /\ \E k \in DeliveriesOf(route_data) :
               LET i == route_data.stops[k].location_index
               IN /\ addresses[i].preferred_time_start # None
                  /\ addresses[i].preferred_time_end # None
                  /\ ClaimedWindow(i)[1] > 0

\* the path depot, stops, home of a persisted home-ending route
HomeEndingPath(r) ==
  <<[kind |-> "depot", id |-> 0]>>
    \o [j \in DOMAIN r.stops |-> [kind |-> "address", id |-> r.stops[j].address_id]]
    \o <<[kind |-> "home", id |-> r.driver_id]>>

PathDistance(path) ==
  SeqSum([k \in 1..(Len(path) - 1) |-> OracleDistance(path[k], path[k + 1])])

PathDuration(path) ==
  SeqSum([k \in 1..(Len(path) - 1) |-> OracleDuration(path[k], path[k + 1])])

\* C25: a persisted route of a home-ending vehicle whose geometry lookup
\* succeeded has the distance and the duration of the oracle for the path
\* depot, stops, home, and ends at its start time plus that duration (in
\* whole minutes); a route of a vehicle that returns to the depot has the
\* distance, the duration and the end time of the solver.
C25_HomeEndingFiguresFromOracle ==
  Succeeded =>
    \A r \in response.routes :
      LET route_data == SolutionRouteOf(r)
      IN /\ (EndsAtHome(r) /\ r.route_geometry) =>
              /\ r.total_distance_km = PathDistance(HomeEndingPath(r))
              /\ r.total_duration_minutes = PathDuration(HomeEndingPath(r))
              /\ r.start_minutes = route_data.stops[1].time_minutes
              /\ 2 * r.end_minutes <= 2 * r.start_minutes + PathDuration(HomeEndingPath(r))
              /\ 2 * r.end_minutes + 2 > 2 * r.start_minutes + PathDuration(HomeEndingPath(r))
         /\ ~EndsAtHome(r) =>
              /\ r.total_distance_km = route_data.distance_km
              /\ r.total_duration_minutes = route_data.duration_minutes
              /\ r.start_minutes = route_data.stops[1].time_minutes
              /\ r.end_minutes = route_data.stops[Len(route_data.stops)].time_minutes

\* a home-ending route with geometry whose oracle distance is not the
\* solver's, beside a route that returns to the depot
C25_Witness ==
  /\ Succeeded
  /\ \E r1 \in response.routes : \E r2 \in response.routes :
       /\ EndsAtHome(r1) /\ r1.route_geometry /\ Len(r1.stops) >= 1
       /\ r1.total_distance_km # SolutionRouteOf(r1).distance_km
       /\ ~EndsAtHome(r2)

ModelBuilt == pc = "solve"

\* some assignment that satisfies the constraints serves the nodes
Servable(S, nodes) == \E q \in FeasiblePlans(S) : nodes \subseteq VisitedBy(q)

\* C26: in a cost-minimal solution of the built model a stop is dropped
\* only if no assignment that satisfies the time, capacity and vehicle
\* constraints serves it together with the stops that are served.
C26_DroppedOnlyWhenInfeasible ==
  ModelBuilt =>
    \A p \in CostMinimalPlans(Val(solver)) :
      \A n \in DroppedBy(Val(solver), p) :
        ~Servable(Val(solver), (VisitedBy(p) \cap DeliveryNodes(Val(solver))) \cup {n})

\* the arc cost of the cheapest assignment that serves the nodes
CheapestServing(S, nodes) ==
  LET costs == {Objective(S, q) - DropPenalty * Cardinality(DroppedBy(S, q)) :
                  q \in {f \in FeasiblePlans(S) : nodes \subseteq VisitedBy(f)}}
  IN CHOOSE c \in costs : \A d \in costs : c <= d

\* what holds: a stop that could be served is dropped in a cost-minimal
\* solution only when every assignment that serves the same stops and it
\* costs at least the penalty more in arcs
C26_DroppedOnlyWhenInfeasibleOrDear ==
  ModelBuilt =>
    \A p \in CostMinimalPlans(Val(solver)) :
      \A n \in DroppedBy(Val(solver), p) :
        LET served == VisitedBy(p) \cap DeliveryNodes(Val(solver))
        IN Servable(Val(solver), served \cup {n}) =>
             CheapestServing(Val(solver), served \cup {n})
               >= CheapestServing(Val(solver), served) + DropPenalty

WellFormed(w) == 0 <= w[1] /\ w[1] <= w[2]

\* C27: every time window handed to the solver is well formed,
\* 0 <= start <= end, whatever the preferred start and end of the stop.
C27_WindowsWellFormed ==
  SolverConfigured =>
    \A i \in DOMAIN Val(solver).time_windows :
       WellFormed(Val(solver).time_windows[i])

\* what holds: the windows of the depot, of the home terminals and of the
\* stops without preferred times are well formed, and so is the window of
\* a stop whose preferred times are not before the earliest start, not
\* more than the largest maximal duration after it, and in order
C27_WellFormedWithinHorizon ==
  SolverConfigured =>
    \A i \in DOMAIN Val(solver).time_windows :
       (i \in AddressNodes =>
          /\ 0 <= ClaimedWindow(i)[1]
          /\ ClaimedWindow(i)[1] <= ClaimedWindow(i)[2])
         => WellFormed(Val(solver).time_windows[i])

\* the persisted routes of the response in the order of their numbers
RouteList == [i \in 1..Cardinality(response.routes) |->
                CHOOSE r \in response.routes : r.route_number = i]

StoredDay == CHOOSE d \in delivery_days : d.date = request.date

TotalsAgree ==
  /\ StoredDay.total_distance_km
       = SeqSum([i \in DOMAIN RouteList |-> RouteList[i].total_distance_km])
  /\ StoredDay.total_duration_minutes
       = SeqSum([i \in DOMAIN RouteList |-> RouteList[i].total_duration_minutes])
  /\ StoredDay.total_stops
       = SeqSum([i \in DOMAIN RouteList |-> Len(RouteList[i].stops)])

\* C28: after a successful run the total distance and the total duration
\* of the delivery day are the sums over the routes persisted for the day
\* and its total of stops is the number of persisted stop records, with
\* and without home-ending routes.
C28_DayTotalsAgreeWithRoutes == Succeeded => TotalsAgree

\* what holds: the totals agree when no driver of the run ends at home
C28_TotalsAgreeWithoutHomeEnding ==
  (Succeeded /\ drivers_ending_at_home = <<>>) => TotalsAgree

\* what holds in every successful run: the total of stops and the number
\* of drivers of the day are those of the persisted routes
C28_StopAndDriverTotals ==
  Succeeded =>
    /\ StoredDay.total_drivers = Cardinality(response.routes)
    /\ StoredDay.total_stops
         = SeqSum([i \in DOMAIN RouteList |-> Len(RouteList[i].stops)])

StartsBeforeFirstStop(r) == r.start_minutes <= r.stops[1].arrival

EndsAfterLastStop(r) == r.end_minutes >= r.stops[Len(r.stops)].departure

\* C29: every persisted route starts not later than the arrival at its
\* first delivery stop and ends not earlier than the departure (arrival
\* plus service time) from its last delivery stop, for routes that return
\* to the depot and for home-ending routes.
C29_RouteSpansItsStops ==
  Succeeded =>
    \A r \in response.routes :
      Len(r.stops) >= 1 => StartsBeforeFirstStop(r) /\ EndsAfterLastStop(r)

\* what holds: every route starts in time, and a route that returns to
\* the depot ends in time
C29_DepotReturnSpansItsStops ==
  Succeeded =>
    \A r \in response.routes :
      Len(r.stops) >= 1 =>
        /\ StartsBeforeFirstStop(r)
        /\ ~EndsAtHome(r) => EndsAfterLastStop(r)

VisitsHome(route_data) == NodesOf(route_data) \cap HomeNodes # {}

VehicleCapacity(route_data) == Val(solver).vehicle_capacities[route_data.vehicle_id]

\* C30: a home terminal has demand 1 like every other node but the depot,
\* so a route that visits the home terminal of its vehicle serves at most
\* max stops - 1 delivery stops, while a route that returns to the depot
\* only may serve max stops delivery stops.
C30_HomeTerminalTakesOneSeat ==
  /\ SolverConfigured =>
       \A node \in AddressNodes \cup HomeNodes : demand_callback(node) = 1
  /\ solution # None =>
       \A k \in DOMAIN Val(solution).routes :
         LET route_data == Val(solution).routes[k]
         IN Cardinality(DeliveriesOf(route_data)) <=
              VehicleCapacity(route_data) - (IF VisitsHome(route_data) THEN 1 ELSE 0)

\* a home-ending vehicle with max stops 2 serves one of two stops, the
\* other one is dropped
C30_Witness ==
  /\ solution # None
  /\ Len(addresses) = 2
  /\ Len(Val(solution).dropped_nodes) = 1
  /\ \E k \in DOMAIN Val(solution).routes :
       LET route_data == Val(solution).routes[k]
       IN /\ VisitsHome(route_data)
          /\ VehicleCapacity(route_data) = 2
          /\ Cardinality(DeliveriesOf(route_data)) = 1

\* a vehicle with max stops 2 that returns to the depot serves two stops
C30_WitnessDepotReturn ==
  /\ solution # None
  /\ \E k \in DOMAIN Val(solution).routes :
       LET route_data == Val(solution).routes[k]
       IN /\ ~VisitsHome(route_data)
          /\ VehicleCapacity(route_data) = 2
          /\ Cardinality(DeliveriesOf(route_data)) = 2

====
